---- MODULE Spec2Model ----
(***************************************************************************)
(* A model of gtfs2kml's road snapping pipeline                            *)
(* (src/src/gtfs2kml/road_snapper.py, src/src/gtfs2kml/models.py), of its  *)
(* path densifier and of the KML generator's batch output                  *)
(* (src/src/gtfs2kml/kml_generator.py).                                    *)
(*                                                                         *)
(* One behaviour constructs one RoadSnapper and runs one snap_shape call   *)
(* against a file system whose cache artifact starts in any of the states  *)
(* earlier runs can have left it in.  Floats are modelled by integers:     *)
(* coordinates by small naturals, the OSRM confidence by hundredths.       *)
(***************************************************************************)
EXTENDS Integers, Sequences, FiniteSets, TLC

VARIABLES
    snapper,      \* the RoadSnapper instance (self), None before construction
    init_call,    \* the running/last __init__ call: its arguments and outcome
    fs,           \* the file system: the cache directory and its artifacts
    pc,           \* where the program is
    shape,        \* snap_shape's argument
    coordinates,  \* snap_shape's local: the extracted (lat, lon) list
    i,            \* the chunk loop's index
    all_snapped,  \* the chunk loop's accumulator / snapped_coords
    calls,        \* the provider round trips of this snap_shape call
    last_response,\* the response of the round trip just made (a local of it)
    events,       \* what this snap_shape call did, in order
    result,       \* what snap_shape returned
    cache_io,     \* how this call's cache read and cache write ended
    files_before, \* the cache artifacts when snap_shape was called
    loaded,       \* what a _load_from_cache after the call returned
    max_points_per_request, \* snap_shape's optional argument
    max_points,   \* _snap_<provider>'s local of that name
    densifier,    \* the PathDensifier instance, None before construction
    dense_in,     \* densify_shape's argument
    dense_out,    \* what densify_shape returned
    measured,     \* the calculate_path_distance call made: argument and value
    routes,       \* generate_batch's argument: the routes, in order
    output_files, \* what generate_batch returned
    kml_files,    \* the output directory: which route each file holds
    this_route,   \* a models.Route on its own, None before construction
    route_call,   \* the Route member used last: its arguments and its value
    disk,         \* one cache file written by concurrent stores, block by block
    writers,      \* the concurrent _save_to_cache calls: data and position
    loads,        \* what the _load_from_cache calls made meanwhile returned
    feed,         \* the GTFS directory the parser reads
    parser,       \* the GTFSParser instance (self), None before construction
    parsed        \* what each parse() call returned, as it was on return

\* the variables of the path densifier and of calculate_path_distance
densifyVars == <<densifier, dense_in, dense_out, measured>>

\* the variables of the KML generator
batchVars == <<routes, output_files, kml_files>>

\* the variables of a models.Route on its own
routeVars == <<this_route, route_call>>

\* the variables of concurrent cache stores
raceVars == <<disk, writers, loads>>

\* the variables of the GTFS parser
parseVars == <<feed, parser, parsed>>

vars == <<snapper, init_call, fs, pc, shape, coordinates, i, all_snapped,
          calls, last_response, events, result, cache_io, files_before, loaded,
          max_points_per_request, max_points, densifyVars, batchVars,
          routeVars, raceVars, parseVars>>

-----------------------------------------------------------------------------
(* Bounds of the model *)

\* the longest input path, in points
MaxLen == 11

\* the longest path stored in the cache on its own
MaxStored == 2

-----------------------------------------------------------------------------
(* Python values *)

None == <<>>
Some(x) == <<x>>

\* s[a:b] for 0 <= a, 0 <= b
Slice(s, a, b) ==
    LET hi == IF b < Len(s) THEN b ELSE Len(s)
    IN  IF a >= hi THEN <<>> ELSE [k \in 1..(hi - a) |-> s[a + k]]

\* s[k:]
Drop(s, k) == Slice(s, k, Len(s))

Min(a, b) == IF a < b THEN a ELSE b

\* bool(x) for an Optional[str]
Truthy(x) == x # None /\ x # Some("")

-----------------------------------------------------------------------------
(* models.py *)

ShapePoint(shape_id, lat, lon, seq) ==
    [shape_id |-> shape_id, shape_pt_lat |-> lat, shape_pt_lon |-> lon,
     shape_pt_sequence |-> seq, shape_dist_traveled |-> None]

Shape(shape_id) == [shape_id |-> shape_id, points |-> <<>>]

add_point(s, point) == [s EXCEPT !.points = Append(@, point)]

coordinate_count(s) == Len(s.points)

-----------------------------------------------------------------------------
(* RoadSnapperConfig *)

OSRM_RATE_LIMIT == 1000
MAPBOX_RATE_LIMIT == 10
GOOGLE_RATE_LIMIT == 10

OSRM_MAX_POINTS == 100
MAPBOX_MAX_POINTS == 100
GOOGLE_MAX_POINTS == 100

\* a chunk size one short of the documented one
OSRM_CHUNK_SIZE_short == 6 - 1

OSRM_CHUNK_SIZE == 6
MAPBOX_CHUNK_SIZE == 10
GOOGLE_CHUNK_SIZE == 10

\* successive OSRM windows sharing one point more
OSRM_OVERLAP_wide == 2 + 1

\* the overlap locals of _snap_osrm, _snap_mapbox, _snap_google
OSRM_OVERLAP == 2
MAPBOX_OVERLAP == 5
GOOGLE_OVERLAP == 5

\* 0.75, in hundredths
MIN_CONFIDENCE == 75

-----------------------------------------------------------------------------
(* Inputs *)

ShapeIds == {"s1", "s2"}

\* a raw GTFS shape of n pairwise distinct points, sequence numbers from 1
RawShape(id, n) ==
    [shape_id |-> id,
     points |-> [k \in 1..n |-> ShapePoint(id, k, 50 + k, k)]]

InputShapes == {RawShape(id, n) : id \in ShapeIds, n \in 0..MaxLen}

ProviderNames == {"osrm", "OSRM", "mapbox", "Mapbox", "google", "GOOGLE", "here"}

ApiKeys == {None, Some(""), Some("key")}

CacheDirs == {None, Some("cache")}

\* the provider name taken as given
Lower_asgiven(s) == s

\* str.lower() on the provider names in use
Lower(s) ==
    CASE s = "OSRM" -> "osrm"
      [] s = "Mapbox" -> "mapbox"
      [] s = "GOOGLE" -> "google"
      [] OTHER -> s

-----------------------------------------------------------------------------
(* The cache directory *)

\* cache_dir / f"{shape_id}_snapped.json"
CacheFile(shape_id) == shape_id \o "_snapped.json"

CacheFiles == {CacheFile(id) : id \in ShapeIds}

\* json.dump: the text of a JSON document holding data
JsonText(data) == [valid |-> TRUE, value |-> data]

\* a file that is no JSON document (truncated, or not JSON at all)
Garbage == [valid |-> FALSE, value |-> <<>>]

\* artifacts an earlier run, or anything else, can have left under a cache key
StoredArtifacts(id) ==
    { JsonText([shape_id |-> id \o "_snapped", points |-> <<>>]),
      JsonText([shape_id |-> id \o "_snapped",
                points |-> << [lat |-> 1001, lon |-> 51, seq |-> 0],
                              [lat |-> 1002, lon |-> 52, seq |-> 1] >>]),
      JsonText([points |-> <<>>]),
      JsonText([shape_id |-> id \o "_snapped",
                points |-> << [lat |-> 1001, seq |-> 0] >>]),
      Garbage }

NoFiles == [f \in CacheFiles |-> None]

\* the keys _load_from_cache reads of every point object
PointKeys == {"lat", "lon", "seq"}

\* point objects that lack a key skipped instead of failing the load
LoadFromCache_lenient(files, shape_id, opened) ==
    LET cache_file == CacheFile(shape_id) IN
    IF files[cache_file] = None THEN None
    ELSE IF ~opened THEN None
    ELSE LET text == files[cache_file][1] IN
         IF ~text.valid THEN None
         ELSE LET data == text.value IN
              IF "shape_id" \notin DOMAIN data THEN None
              ELSE IF "points" \notin DOMAIN data THEN None
              ELSE LET whole == SelectSeq(data.points,
                                   LAMBDA pt : PointKeys \subseteq DOMAIN pt)
                   IN  Some([shape_id |-> data.shape_id,
                             points |-> [k \in 1..Len(whole) |->
                                 ShapePoint(data.shape_id, whole[k].lat,
                                            whole[k].lon, whole[k].seq)]])

\* RoadSnapper._load_from_cache; opened: whether open() succeeds
LoadFromCache(files, shape_id, opened) ==
    LET cache_file == CacheFile(shape_id) IN
    IF files[cache_file] = None THEN None
    ELSE IF ~opened THEN None
    ELSE LET text == files[cache_file][1] IN
         IF ~text.valid THEN None
         ELSE LET data == text.value IN
              IF "shape_id" \notin DOMAIN data THEN None
              ELSE IF "points" \notin DOMAIN data THEN None
              ELSE IF \E k \in 1..Len(data.points) :
                         ~(PointKeys \subseteq DOMAIN data.points[k])
                   THEN None
              ELSE Some([shape_id |-> data.shape_id,
                         points |-> [k \in 1..Len(data.points) |->
                             ShapePoint(data.shape_id,
                                        data.points[k].lat,
                                        data.points[k].lon,
                                        data.points[k].seq)]])

\* lat and lon written under each other's key
CacheData_swapped(snapped_shape) ==
    [shape_id |-> snapped_shape.shape_id,
     points |-> [k \in 1..Len(snapped_shape.points) |->
                    [lat |-> snapped_shape.points[k].shape_pt_lon,
                     lon |-> snapped_shape.points[k].shape_pt_lat,
                     seq |-> snapped_shape.points[k].shape_pt_sequence]]]

\* the dictionary _save_to_cache serialises
CacheData(snapped_shape) ==
    [shape_id |-> snapped_shape.shape_id,
     points |-> [k \in 1..Len(snapped_shape.points) |->
                    [lat |-> snapped_shape.points[k].shape_pt_lat,
                     lon |-> snapped_shape.points[k].shape_pt_lon,
                     seq |-> snapped_shape.points[k].shape_pt_sequence]]]

\* how a write can end: written, open() raised, json.dump raised half way
WriteOutcomes == {"ok", "open_error", "write_error"}

\* RoadSnapper._save_to_cache: the files it leaves
SaveToCache(files, original_shape_id, snapped_shape, outcome) ==
    LET cache_file == CacheFile(original_shape_id) IN
    CASE outcome = "ok" ->
            [files EXCEPT ![cache_file] = Some(JsonText(CacheData(snapped_shape)))]
      [] outcome = "open_error" -> files
      [] outcome = "write_error" -> [files EXCEPT ![cache_file] = Some(Garbage)]

-----------------------------------------------------------------------------
(* The map matching services, as the snapper sees them *)

\* requests.get raised (connection refused, timeout, ...)
TransportError == [transport |-> "error"]

\* a response with its status code and its body
Http(status, body) == [transport |-> "ok", status |-> status, body |-> body]

\* where the road network puts a (lon, lat) point
RoadLonLat(p) == <<p[1], p[2] + 1000>>

\* the geometries a service may answer a request with: as many points as it
\* was sent, a single one, or none; in the order of the request, (lon, lat)
MatchedGeometries(wire) ==
    LET road == [k \in 1..Len(wire) |-> RoadLonLat(wire[k])]
    IN  {Slice(road, 0, m) : m \in {0, 1, Len(wire)}}

\* a coordinate list whose elements are no pairs
MalformedGeometry == << <<0, 0, 0>> >>

Geometries(wire) == MatchedGeometries(wire) \cup {MalformedGeometry}

\* confidence scores, in hundredths
Confidences == {50, 75, 90}

\* coords_str of _snap_osrm_chunk and _snap_mapbox_chunk: "lon,lat;lon,lat"
LonLatStr(coords) == [k \in 1..Len(coords) |-> <<coords[k][2], coords[k][1]>>]

\* path of _snap_google_chunk: "lat,lon|lat,lon"
LatLonStr(coords) == [k \in 1..Len(coords) |-> <<coords[k][1], coords[k][2]>>]

OsrmMatchings(wire) ==
    {[confidence |-> c, geometry |-> [coordinates |-> g]] :
        c \in Confidences, g \in Geometries(wire)}
    \cup {[geometry |-> [coordinates |-> g]] : g \in Geometries(wire)}
    \cup {[confidence |-> c] : c \in Confidences}

OsrmResponses(wire) ==
    {TransportError, Http(500, Garbage), Http(200, Garbage),
     Http(200, JsonText([code |-> "NoMatch", message |-> "no match"])),
     Http(200, JsonText([message |-> "no code"])),
     Http(200, JsonText([code |-> "Ok"])),
     Http(200, JsonText([code |-> "Ok", matchings |-> <<>>]))}
    \cup {Http(200, JsonText([code |-> "Ok", matchings |-> <<m>>])) :
            m \in OsrmMatchings(wire)}
    \cup {Http(500, JsonText([code |-> "Ok", matchings |->
            << [confidence |-> 90, geometry |-> [coordinates |-> g]] >>])) :
            g \in {[k \in 1..Len(wire) |-> RoadLonLat(wire[k])]}}

MapboxMatchings(wire) ==
    {[geometry |-> [coordinates |-> g]] : g \in Geometries(wire)}
    \cup {[confidence |-> c, geometry |-> [coordinates |-> g]] :
            c \in {50}, g \in MatchedGeometries(wire)}
    \cup {[weight |-> 1]}

MapboxResponses(wire) ==
    {TransportError, Http(500, Garbage), Http(200, Garbage),
     Http(200, JsonText([code |-> "NoMatch", message |-> "no match"])),
     Http(200, JsonText([code |-> "Ok", matchings |-> <<>>]))}
    \cup {Http(200, JsonText([code |-> "Ok", matchings |-> <<m>>])) :
            m \in MapboxMatchings(wire)}
    \cup {Http(500, JsonText([code |-> "Ok", matchings |->
            << [geometry |-> [coordinates |-> g]] >>])) :
            g \in {[k \in 1..Len(wire) |-> RoadLonLat(wire[k])]}}

\* the snappedPoints Google may answer with; wire is (lat, lon)
GoogleSnappedPoints(wire) ==
    LET road == [k \in 1..Len(wire) |->
                    [location |-> [latitude |-> wire[k][1] + 1000,
                                   longitude |-> wire[k][2]]]]
    IN  {Slice(road, 0, m) : m \in {0, 1, Len(wire)}}
        \cup {<< [placeId |-> "p"] >>}

GoogleResponses(wire) ==
    {TransportError, Http(500, Garbage), Http(200, Garbage),
     Http(200, JsonText([warningMessage |-> "none"]))}
    \cup {Http(200, JsonText([snappedPoints |-> ps])) :
            ps \in GoogleSnappedPoints(wire)}
    \cup {Http(500, JsonText([snappedPoints |-> ps])) :
            ps \in {[k \in 1..Len(wire) |->
                        [location |-> [latitude |-> wire[k][1] + 1000,
                                       longitude |-> wire[k][2]]]]}}

\* raise_for_status left out
RaisesForStatus_never(response) == FALSE

\* response.raise_for_status() raises
RaisesForStatus(response) == response.status >= 400 /\ response.status < 600

\* for lon, lat in geometry: every element unpacks into two
UnpacksToPairs(geometry) == \A k \in 1..Len(geometry) : Len(geometry[k]) = 2

\* [(lat, lon) for lon, lat in geometry]
ToLatLon(geometry) ==
    [k \in 1..Len(geometry) |-> <<geometry[k][2], geometry[k][1]>>]

\* a match of exactly 0.75 rejected
ConfidenceTooLow_inclusive(confidence) == confidence <= MIN_CONFIDENCE

\* _snap_osrm_chunk: if confidence < 0.75
ConfidenceTooLow(confidence) == confidence < MIN_CONFIDENCE

\* RoadSnapper._snap_osrm_chunk, given the response requests.get receives
snap_osrm_chunk(chunk, response) ==
    IF response.transport # "ok" THEN chunk
    ELSE IF RaisesForStatus(response) THEN chunk
    ELSE IF ~response.body.valid THEN chunk
    ELSE LET data == response.body.value IN
         IF "code" \notin DOMAIN data \/ data.code # "Ok" THEN chunk
         ELSE IF "matchings" \notin DOMAIN data THEN chunk
         ELSE IF Len(data.matchings) = 0 THEN chunk
         ELSE LET matching == data.matchings[1]
                  confidence == IF "confidence" \in DOMAIN matching
                                THEN matching.confidence ELSE 0
              IN  IF ConfidenceTooLow(confidence) THEN chunk
                  ELSE IF "geometry" \notin DOMAIN matching THEN chunk
                  ELSE IF ~UnpacksToPairs(matching.geometry.coordinates) THEN chunk
                  ELSE ToLatLon(matching.geometry.coordinates)

\* RoadSnapper._snap_mapbox_chunk
snap_mapbox_chunk(chunk, response) ==
    IF response.transport # "ok" THEN chunk
    ELSE IF RaisesForStatus(response) THEN chunk
    ELSE IF ~response.body.valid THEN chunk
    ELSE LET data == response.body.value IN
         IF "matchings" \notin DOMAIN data THEN chunk
         ELSE IF Len(data.matchings) = 0 THEN chunk
         ELSE LET matching == data.matchings[1] IN
              IF "geometry" \notin DOMAIN matching THEN chunk
              ELSE IF ~UnpacksToPairs(matching.geometry.coordinates) THEN chunk
              ELSE ToLatLon(matching.geometry.coordinates)

\* RoadSnapper._snap_google_chunk
snap_google_chunk(chunk, response) ==
    IF response.transport # "ok" THEN chunk
    ELSE IF RaisesForStatus(response) THEN chunk
    ELSE IF ~response.body.valid THEN chunk
    ELSE LET data == response.body.value IN
         IF "snappedPoints" \notin DOMAIN data THEN chunk
         ELSE IF \E k \in 1..Len(data.snappedPoints) :
                    "location" \notin DOMAIN data.snappedPoints[k]
              THEN chunk
         ELSE [k \in 1..Len(data.snappedPoints) |->
                  <<data.snappedPoints[k].location.latitude,
                    data.snappedPoints[k].location.longitude>>]

-----------------------------------------------------------------------------
(* snap_shape *)

KnownProviders == {"osrm", "mapbox", "google"}

\* the window of the chunk loop at index at: coordinates[at:chunk_end]
Window(coords, at, chunk_size) ==
    Slice(coords, at, Min(at + chunk_size, Len(coords)))

\* the whole overlap removed, not half of it
osrm_remove_overlap_whole(at, snapped_chunk) ==
    IF at > 0 THEN Drop(snapped_chunk, OSRM_OVERLAP) ELSE snapped_chunk

\* the overlap removed from the first chunk too
osrm_remove_overlap_always(at, snapped_chunk) ==
    Drop(snapped_chunk, OSRM_OVERLAP \div 2)

\* _snap_osrm: "Remove overlap from all but first chunk"
osrm_remove_overlap(at, snapped_chunk) ==
    IF at > 0 THEN Drop(snapped_chunk, OSRM_OVERLAP \div 2) ELSE snapped_chunk

\* _snap_mapbox: if i > 0: snapped_chunk = snapped_chunk[overlap // 2 :]
mapbox_remove_overlap(at, snapped_chunk) ==
    IF at > 0 THEN Drop(snapped_chunk, MAPBOX_OVERLAP \div 2) ELSE snapped_chunk

\* _snap_google: if i > 0: snapped_chunk = snapped_chunk[overlap // 2 :]
google_remove_overlap(at, snapped_chunk) ==
    IF at > 0 THEN Drop(snapped_chunk, GOOGLE_OVERLAP \div 2) ELSE snapped_chunk

\* max_points = max_points or <PROVIDER>_MAX_POINTS
MaxPointsOr(max_points_arg, default) ==
    IF max_points_arg = None \/ max_points_arg = Some(0) THEN default
    ELSE max_points_arg[1]

\* the snapped points numbered from 1, as GTFS numbers them
SnappedShape_from_one(shape_id, snapped_coords) ==
    [shape_id |-> shape_id \o "_snapped",
     points |-> [k \in 1..Len(snapped_coords) |->
                    ShapePoint(shape_id \o "_snapped",
                               snapped_coords[k][1], snapped_coords[k][2], k)]]

\* snap_shape: "Create new shape with snapped coordinates"
SnappedShape(shape_id, snapped_coords) ==
    [shape_id |-> shape_id \o "_snapped",
     points |-> [k \in 1..Len(snapped_coords) |->
                    ShapePoint(shape_id \o "_snapped",
                               snapped_coords[k][1], snapped_coords[k][2],
                               k - 1)]]

\* [(p.shape_pt_lat, p.shape_pt_lon) for p in shape.points]
Coordinates(s) ==
    [k \in 1..Len(s.points) |-> <<s.points[k].shape_pt_lat, s.points[k].shape_pt_lon>>]

Event(kind, arg) == [kind |-> kind, arg |-> arg]

\* the request sent without the rate limiting sleep
RoundTrip_undelayed(rate_limit, chunk) == << Event("request", Len(chunk)) >>

\* the round trip _snap_<provider>_chunk makes: the rate limiting sleep, then
\* the request
RoundTrip(rate_limit, chunk) ==
    << Event("sleep", rate_limit), Event("request", Len(chunk)) >>

NoCacheIo == [read |-> "none", write |-> "none"]

\* what the service answered: "failed" (no answer, an error status, a body
\* that is no JSON or lacks the match), "low_confidence" (an OSRM match below
\* 0.75) or "matched"
RoundTripOutcome(provider, response) ==
    IF response.transport # "ok" THEN "failed"
    ELSE IF response.status # 200 THEN "failed"
    ELSE IF ~response.body.valid THEN "failed"
    ELSE LET data == response.body.value IN
         IF provider = "google"
         THEN IF "snappedPoints" \notin DOMAIN data THEN "failed"
              ELSE IF \E k \in 1..Len(data.snappedPoints) :
                         "location" \notin DOMAIN data.snappedPoints[k]
                   THEN "failed"
              ELSE "matched"
         ELSE IF provider = "osrm" /\ ("code" \notin DOMAIN data \/ data.code # "Ok")
              THEN "failed"
         ELSE IF "matchings" \notin DOMAIN data THEN "failed"
         ELSE IF data.matchings = <<>> THEN "failed"
         ELSE IF "geometry" \notin DOMAIN data.matchings[1] THEN "failed"
         ELSE IF data.matchings[1].geometry.coordinates = MalformedGeometry
              THEN "failed"
         ELSE IF provider = "osrm"
                 /\ ("confidence" \notin DOMAIN data.matchings[1]
                     \/ data.matchings[1].confidence < 75)
              THEN "low_confidence"
         ELSE "matched"

Call(provider, chunk, response, returned) ==
    [chunk |-> chunk, outcome |-> RoundTripOutcome(provider, response),
     returned |-> returned]

-----------------------------------------------------------------------------
(* The program *)

Init ==
    /\ snapper = None
    /\ init_call = None
    /\ fs = [dir |-> FALSE, files |-> NoFiles]
    /\ pc = "new"
    /\ shape = None
    /\ coordinates = <<>>
    /\ i = 0
    /\ all_snapped = <<>>
    /\ calls = <<>>
    /\ last_response = None
    /\ events = <<>>
    /\ result = None
    /\ cache_io = NoCacheIo
    /\ files_before = NoFiles
    /\ loaded = None
    /\ max_points_per_request = None
    /\ max_points = None
    /\ densifier = None
    /\ dense_in = None
    /\ dense_out = None
    /\ measured = None
    /\ routes = <<>>
    /\ output_files = None
    /\ kml_files = {}
    /\ this_route = None
    /\ route_call = None
    /\ disk = <<>>
    /\ writers = <<>>
    /\ loads = <<>>
    /\ feed = None
    /\ parser = None
    /\ parsed = <<>>

\* __init__: "Validate configuration"
RequiresApiKey(provider) == provider = "mapbox" \/ provider = "google"

\* RoadSnapper.__init__(provider, api_key, cache_dir)
Construct(provider, api_key, cache_dir) ==
    /\ pc = "new"
    /\ fs' = IF cache_dir # None THEN [fs EXCEPT !.dir = TRUE] ELSE fs
    /\ IF RequiresApiKey(Lower(provider)) /\ ~Truthy(api_key)
       THEN /\ pc' = "init_failed"
            /\ snapper' = None
            /\ init_call' = Some([provider |-> provider, api_key |-> api_key,
                                  cache_dir |-> cache_dir, raised |-> "ValueError"])
       ELSE /\ pc' = "idle"
            /\ snapper' = Some([provider |-> Lower(provider), api_key |-> api_key,
                                cache_dir |-> cache_dir])
            /\ init_call' = Some([provider |-> provider, api_key |-> api_key,
                                  cache_dir |-> cache_dir, raised |-> "none"])
    /\ UNCHANGED <<shape, coordinates, i, all_snapped, calls, last_response,
                   events, result, cache_io, files_before,
                   loaded,
                   max_points_per_request, max_points, densifyVars, batchVars,
                   routeVars, raceVars, parseVars>>

self == snapper[1]

\* the cache directory between two runs: an artifact of an earlier run, or
\* what is left of one, lies under the key of shape s1
EarlierRun(artifact) ==
    /\ pc = "idle"
    /\ self.cache_dir # None
    /\ fs.files = NoFiles
    /\ fs' = [fs EXCEPT !.files[CacheFile("s1")] = Some(artifact)]
    /\ UNCHANGED <<snapper, init_call, pc, shape, coordinates, i, all_snapped,
                   calls, last_response, events, result, cache_io, files_before,
                   loaded,
                   max_points_per_request, max_points, densifyVars, batchVars,
                   routeVars, raceVars, parseVars>>

\* snap_shape(shape, max_points_per_request), up to the cache check
SnapShape(s, max_points_arg) ==
    /\ pc = "idle"
    /\ shape' = s
    /\ max_points_per_request' = max_points_arg
    /\ files_before' = fs.files
    /\ init_call' = None
    /\ IF self.cache_dir # None
       THEN pc' = "cache_check" /\ coordinates' = <<>>
       ELSE pc' = "snap" /\ coordinates' = Coordinates(s)
    /\ UNCHANGED <<snapper, fs, i, all_snapped, calls, last_response, events,
                   result, cache_io,
                   loaded,
                   max_points, densifyVars, batchVars,
                   routeVars, raceVars, parseVars>>

\* a shape without points taken for no shape
CacheHit_nonempty(cached_shape) ==
    cached_shape # None /\ cached_shape[1].points # <<>>

\* snap_shape: if cached_shape (a Shape defines neither __bool__ nor __len__)
CacheHit(cached_shape) == cached_shape # None

\* snap_shape: "Check cache"
CheckCache ==
    /\ pc = "cache_check"
    /\ \E opened \in BOOLEAN :
        LET cached_shape == LoadFromCache(fs.files, shape.shape_id, opened)
            how == IF fs.files[CacheFile(shape.shape_id)] = None THEN "absent"
                   ELSE IF ~opened THEN "open_error"
                   ELSE IF ~CacheHit(cached_shape) THEN "unloadable"
                   ELSE "hit"
        IN  /\ cache_io' = [cache_io EXCEPT !.read = how]
            /\ events' = Append(events, Event("cache_read", 0))
            /\ IF CacheHit(cached_shape)
               THEN /\ result' = cached_shape
                    /\ pc' = "done"
                    /\ UNCHANGED coordinates
               ELSE /\ coordinates' = Coordinates(shape)
                    /\ pc' = "snap"
                    /\ UNCHANGED result
    /\ UNCHANGED <<snapper, init_call, fs, shape, i, all_snapped, calls,
                   last_response, files_before,
                   loaded,
                   max_points_per_request, max_points, densifyVars, batchVars,
                   routeVars, raceVars, parseVars>>

\* snap_shape: raise ValueError(f"Unknown provider: {self.provider}")
UnknownProvider ==
    /\ pc = "snap"
    /\ self.provider \notin KnownProviders
    /\ pc' = "raised"
    /\ UNCHANGED <<snapper, init_call, fs, shape, coordinates, i, all_snapped,
                   calls, last_response, events, result, cache_io, files_before,
                   loaded,
                   max_points_per_request, max_points, densifyVars, batchVars,
                   routeVars, raceVars, parseVars>>

\* snap_shape -> _snap_osrm: one round trip, of the short route or of one chunk
SnapOsrm ==
    /\ pc = "snap"
    /\ self.provider = "osrm"
    /\ max_points' = MaxPointsOr(max_points_per_request, OSRM_MAX_POINTS)
    /\ LET chunk_size == OSRM_CHUNK_SIZE
           step_size == chunk_size - OSRM_OVERLAP
           short == Len(coordinates) <= chunk_size
           chunk_end == Min(i + chunk_size, Len(coordinates))
           chunk == IF short THEN coordinates ELSE Window(coordinates, i, chunk_size)
       IN  \E response \in OsrmResponses(LonLatStr(chunk)) :
             LET snapped_chunk == snap_osrm_chunk(chunk, response) IN
             /\ last_response' = Some(response)
             /\ calls' = Append(calls, Call("osrm", chunk, response, snapped_chunk))
             /\ events' = events \o RoundTrip(OSRM_RATE_LIMIT, chunk)
             /\ IF short
                THEN /\ all_snapped' = snapped_chunk
                     /\ pc' = "build"
                     /\ UNCHANGED i
                ELSE /\ all_snapped' = all_snapped \o osrm_remove_overlap(i, snapped_chunk)
                     /\ IF chunk_end >= Len(coordinates)
                           \/ i + step_size >= Len(coordinates)
                        THEN pc' = "build" /\ UNCHANGED i
                        ELSE pc' = "snap" /\ i' = i + step_size
    /\ UNCHANGED <<snapper, init_call, fs, shape, coordinates, result, cache_io,
                   files_before,
                   loaded,
                   max_points_per_request, densifyVars, batchVars,
                   routeVars, raceVars, parseVars>>

\* snap_shape -> _snap_mapbox: one round trip, of the short route or of one chunk
SnapMapbox ==
    /\ pc = "snap"
    /\ self.provider = "mapbox"
    /\ max_points' = MaxPointsOr(max_points_per_request, MAPBOX_MAX_POINTS)
    /\ LET chunk_size == MAPBOX_CHUNK_SIZE
           step_size == chunk_size - MAPBOX_OVERLAP
           short == Len(coordinates) <= chunk_size
           chunk_end == Min(i + chunk_size, Len(coordinates))
           chunk == IF short THEN coordinates ELSE Window(coordinates, i, chunk_size)
       IN  \E response \in MapboxResponses(LonLatStr(chunk)) :
             LET snapped_chunk == snap_mapbox_chunk(chunk, response) IN
             /\ last_response' = Some(response)
             /\ calls' = Append(calls, Call("mapbox", chunk, response, snapped_chunk))
             /\ events' = events \o RoundTrip(MAPBOX_RATE_LIMIT, chunk)
             /\ IF short
                THEN /\ all_snapped' = snapped_chunk
                     /\ pc' = "build"
                     /\ UNCHANGED i
                ELSE /\ all_snapped' = all_snapped \o mapbox_remove_overlap(i, snapped_chunk)
                     /\ IF chunk_end >= Len(coordinates)
                           \/ i + step_size >= Len(coordinates)
                        THEN pc' = "build" /\ UNCHANGED i
                        ELSE pc' = "snap" /\ i' = i + step_size
    /\ UNCHANGED <<snapper, init_call, fs, shape, coordinates, result, cache_io,
                   files_before,
                   loaded,
                   max_points_per_request, densifyVars, batchVars,
                   routeVars, raceVars, parseVars>>

\* snap_shape -> _snap_google: one round trip, of the short route or of one chunk
SnapGoogle ==
    /\ pc = "snap"
    /\ self.provider = "google"
    /\ max_points' = MaxPointsOr(max_points_per_request, GOOGLE_MAX_POINTS)
    /\ LET chunk_size == GOOGLE_CHUNK_SIZE
           step_size == chunk_size - GOOGLE_OVERLAP
           short == Len(coordinates) <= chunk_size
           chunk_end == Min(i + chunk_size, Len(coordinates))
           chunk == IF short THEN coordinates ELSE Window(coordinates, i, chunk_size)
       IN  \E response \in GoogleResponses(LatLonStr(chunk)) :
             LET snapped_chunk == snap_google_chunk(chunk, response) IN
             /\ last_response' = Some(response)
             /\ calls' = Append(calls, Call("google", chunk, response, snapped_chunk))
             /\ events' = events \o RoundTrip(GOOGLE_RATE_LIMIT, chunk)
             /\ IF short
                THEN /\ all_snapped' = snapped_chunk
                     /\ pc' = "build"
                     /\ UNCHANGED i
                ELSE /\ all_snapped' = all_snapped \o google_remove_overlap(i, snapped_chunk)
                     /\ IF chunk_end >= Len(coordinates)
                           \/ i + step_size >= Len(coordinates)
                        THEN pc' = "build" /\ UNCHANGED i
                        ELSE pc' = "snap" /\ i' = i + step_size
    /\ UNCHANGED <<snapper, init_call, fs, shape, coordinates, result, cache_io,
                   files_before,
                   loaded,
                   max_points_per_request, densifyVars, batchVars,
                   routeVars, raceVars, parseVars>>

\* snap_shape: "Create new shape with snapped coordinates"
BuildShape ==
    /\ pc = "build"
    /\ result' = Some(SnappedShape(shape.shape_id, all_snapped))
    /\ pc' = IF self.cache_dir # None THEN "cache_write" ELSE "done"
    /\ last_response' = None
    /\ UNCHANGED <<snapper, init_call, fs, shape, coordinates, i, all_snapped,
                   calls, events, cache_io, files_before,
                   loaded,
                   max_points_per_request, max_points, densifyVars, batchVars,
                   routeVars, raceVars, parseVars>>

\* snap_shape: "Cache result", and return
CacheResult ==
    /\ pc = "cache_write"
    /\ \E outcome \in WriteOutcomes :
        /\ fs' = [fs EXCEPT !.files = SaveToCache(@, shape.shape_id, result[1], outcome)]
        /\ cache_io' = [cache_io EXCEPT !.write = outcome]
    /\ events' = Append(events, Event("cache_write", 0))
    /\ pc' = "done"
    /\ UNCHANGED <<snapper, init_call, shape, coordinates, i, all_snapped, calls,
                   last_response, result, files_before,
                   loaded,
                   max_points_per_request, max_points, densifyVars, batchVars,
                   routeVars, raceVars, parseVars>>

Next ==
    \/ \E provider \in ProviderNames, api_key \in ApiKeys, cache_dir \in CacheDirs :
            Construct(provider, api_key, cache_dir)
    \/ \E artifact \in StoredArtifacts("s1") : EarlierRun(artifact)
    \/ \E s \in InputShapes : SnapShape(s, None)
    \/ CheckCache
    \/ UnknownProvider
    \/ SnapOsrm
    \/ SnapMapbox
    \/ SnapGoogle
    \/ BuildShape
    \/ CacheResult

Spec == Init /\ [][Next]_vars

-----------------------------------------------------------------------------
(* The cache on its own: _save_to_cache, then _load_from_cache *)

\* the points a stored path is made of
StoredPoints(shape_id) ==
    {ShapePoint(shape_id, lat, lon, seq) :
        lat \in {1, 1001}, lon \in {51, 52}, seq \in {0, 1}}

\* sequences over S of length at most n
RECURSIVE SeqsUpTo(_, _)
SeqsUpTo(S, n) ==
    IF n = 0 THEN {<<>>}
    ELSE LET shorter == SeqsUpTo(S, n - 1)
         IN  shorter \cup {Append(q, x) : q \in shorter, x \in S}

\* the paths handed to _save_to_cache
StoredPaths ==
    UNION {{[shape_id |-> out_id, points |-> ps] :
                ps \in SeqsUpTo(StoredPoints(out_id), MaxStored)} :
           out_id \in {"s1_snapped", "s2_snapped"}}

\* snap_shape about to cache a snapped path of the shape with a given id
InitCache ==
    /\ snapper = Some([provider |-> "osrm", api_key |-> None,
                       cache_dir |-> Some("cache")])
    /\ init_call = None
    /\ \E files \in {NoFiles} \cup
            {[NoFiles EXCEPT ![CacheFile("s1")] = Some(a)] : a \in StoredArtifacts("s1")} :
          /\ fs = [dir |-> TRUE, files |-> files]
          /\ files_before = files
    /\ pc = "cache_write"
    /\ \E id \in ShapeIds : shape = RawShape(id, 0)
    /\ coordinates = <<>>
    /\ i = 0
    /\ all_snapped = <<>>
    /\ calls = <<>>
    /\ last_response = None
    /\ events = <<>>
    /\ \E path \in StoredPaths : result = Some(path)
    /\ cache_io = NoCacheIo
    /\ loaded = None
    /\ max_points_per_request = None
    /\ max_points = None
    /\ densifier = None
    /\ dense_in = None
    /\ dense_out = None
    /\ measured = None
    /\ routes = <<>>
    /\ output_files = None
    /\ kml_files = {}
    /\ this_route = None
    /\ route_call = None
    /\ disk = <<>>
    /\ writers = <<>>
    /\ loads = <<>>
    /\ feed = None
    /\ parser = None
    /\ parsed = <<>>

\* _load_from_cache(shape_id) once the call that stored has returned
LoadStored ==
    /\ pc = "done"
    /\ \E opened \in BOOLEAN :
        /\ loaded' = LoadFromCache(fs.files, shape.shape_id, opened)
        /\ cache_io' = [cache_io EXCEPT !.read =
                            IF fs.files[CacheFile(shape.shape_id)] = None THEN "absent"
                            ELSE IF ~opened THEN "open_error"
                            ELSE IF loaded' = None THEN "unloadable"
                            ELSE "hit"]
    /\ events' = Append(events, Event("cache_read", 0))
    /\ pc' = "loaded"
    /\ UNCHANGED <<snapper, init_call, fs, shape, coordinates, i, all_snapped,
                   calls, last_response, result, files_before,
                   max_points_per_request, max_points, densifyVars, batchVars,
                   routeVars, raceVars, parseVars>>

NextCache ==
    \/ CacheResult
    \/ LoadStored

SpecCache == InitCache /\ [][NextCache]_vars

-----------------------------------------------------------------------------
(* The path densifier and calculate_path_distance *)

\* the densifier's inputs lie on a plane grid of Grain metres, which makes
\* lat1 + seg / (num_segments + 1) * (lat2 - lat1) a whole number of metres
\* for every split into up to 6 parts
Grain == 3 * 4 * 5

\* the northernmost grid line of the inputs
MaxGrid == 5

\* the longest path handed to the densifier, in points
MaxDenseLen == 3

Abs(x) == IF x < 0 THEN -x ELSE x

\* a distance that counts the way north only, and only when going north
geodesic_northbound(coord1, coord2) ==
    IF coord2[1] > coord1[1] THEN coord2[1] - coord1[1] ELSE 0

\* geodesic(coord1, coord2).meters (geopy), on the plane grid: a symmetric
\* distance that grows linearly along a straight segment
geodesic(coord1, coord2) ==
    Abs(coord1[1] - coord2[1]) + Abs(coord1[2] - coord2[2])

\* PathDensifier(interval_meters=...): the intervals in use, in metres
Intervals == {100, 300}

\* the positions of the densifier's input points: along a meridian, and one
\* position east of it
GridPositions ==
    {<<g * Grain, 0>> : g \in 0..MaxGrid} \cup {<<Grain, Grain>>}

\* a raw GTFS shape through the given positions, sequence numbers from 1
GridShape(id, positions) ==
    [shape_id |-> id,
     points |-> [k \in 1..Len(positions) |->
                    ShapePoint(id, positions[k][1], positions[k][2], k)]]

DensifyInputs ==
    {GridShape("s1", positions) : positions \in SeqsUpTo(GridPositions, MaxDenseLen)}

\* a segment cut into stretches of twice the interval
NumSegments_sparse(distance, interval_meters) ==
    distance \div (2 * interval_meters)

\* num_segments = int(distance / self.interval_meters)
NumSegments(distance, interval_meters) == distance \div interval_meters

\* the fraction taken as seg / num_segments
Interpolate_to_end(a, b, seg, num_segments) ==
    a + (seg * (b - a)) \div num_segments

\* fraction = seg / (num_segments + 1); a + fraction * (b - a)
Interpolate(a, b, seg, num_segments) ==
    a + (seg * (b - a)) \div (num_segments + 1)

\* one round of densify_shape's loop: p1, then the interpolated positions
SegmentPositions(interval_meters, p1, p2) ==
    LET coord1 == <<p1.shape_pt_lat, p1.shape_pt_lon>>
        coord2 == <<p2.shape_pt_lat, p2.shape_pt_lon>>
        distance == geodesic(coord1, coord2)
        num_segments == NumSegments(distance, interval_meters)
    IN  <<coord1>> \o
        (IF distance > interval_meters
         THEN [seg \in 1..num_segments |->
                  <<Interpolate(p1.shape_pt_lat, p2.shape_pt_lat, seg, num_segments),
                    Interpolate(p1.shape_pt_lon, p2.shape_pt_lon, seg, num_segments)>>]
         ELSE <<>>)

\* densify_shape's loop over range(len(shape.points) - 1), from round `at`
RECURSIVE DensifiedPositions(_, _, _)
DensifiedPositions(interval_meters, points, at) ==
    IF at >= Len(points) THEN <<>>
    ELSE SegmentPositions(interval_meters, points[at], points[at + 1])
            \o DensifiedPositions(interval_meters, points, at + 1)

\* the input identifier kept
DenseId_same(shape_id) == shape_id

\* f"{shape.shape_id}_dense"
DenseId(shape_id) == shape_id \o "_dense"

\* only the empty path taken for degenerate
TooShort_empty(s) == coordinate_count(s) < 1

\* if shape.coordinate_count < 2
TooShort(s) == coordinate_count(s) < 2

\* PathDensifier.densify_shape(shape)
densify_shape(interval_meters, s) ==
    IF TooShort(s) THEN s
    ELSE LET last == s.points[Len(s.points)]
             positions == DensifiedPositions(interval_meters, s.points, 1)
                            \o << <<last.shape_pt_lat, last.shape_pt_lon>> >>
         IN  [shape_id |-> DenseId(s.shape_id),
              points |-> [k \in 1..Len(positions) |->
                             ShapePoint(DenseId(s.shape_id), positions[k][1],
                                        positions[k][2], k - 1)]]

\* calculate_path_distance's loop, from round `at`
RECURSIVE TotalDistance(_, _)
TotalDistance(points, at) ==
    IF at >= Len(points) THEN 0
    ELSE geodesic(<<points[at].shape_pt_lat, points[at].shape_pt_lon>>,
                  <<points[at + 1].shape_pt_lat, points[at + 1].shape_pt_lon>>)
            + TotalDistance(points, at + 1)

\* calculate_path_distance(shape)
calculate_path_distance(s) ==
    IF coordinate_count(s) < 2 THEN 0 ELSE TotalDistance(s.points, 1)

\* the path with its points in reverse order
Reversed(s) ==
    [s EXCEPT !.points = [k \in 1..Len(s.points) |-> s.points[Len(s.points) + 1 - k]]]

\* PathDensifier.__init__(interval_meters)
NewDensifier(interval_meters) ==
    /\ pc = "new"
    /\ densifier' = Some([interval_meters |-> interval_meters])
    /\ pc' = "densifier"
    /\ UNCHANGED <<snapper, init_call, fs, shape, coordinates, i, all_snapped,
                   calls, last_response, events, result, cache_io, files_before,
                   loaded, max_points_per_request, max_points,
                   dense_in, dense_out, measured, batchVars,
                   routeVars, raceVars, parseVars>>

\* densifier.densify_shape(s)
DensifyShape(s) ==
    /\ pc = "densifier"
    /\ dense_in' = Some(s)
    /\ dense_out' = Some(densify_shape(densifier[1].interval_meters, s))
    /\ pc' = "densified"
    /\ UNCHANGED <<snapper, init_call, fs, shape, coordinates, i, all_snapped,
                   calls, last_response, events, result, cache_io, files_before,
                   loaded, max_points_per_request, max_points,
                   densifier, measured, batchVars,
                   routeVars, raceVars, parseVars>>

\* calculate_path_distance(s)
CalculatePathDistance(s) ==
    /\ pc = "new"
    /\ measured' = Some(<<[shape |-> s, total |-> calculate_path_distance(s)]>>)
    /\ pc' = "measured"
    /\ UNCHANGED <<snapper, init_call, fs, shape, coordinates, i, all_snapped,
                   calls, last_response, events, result, cache_io, files_before,
                   loaded, max_points_per_request, max_points,
                   densifier, dense_in, dense_out, batchVars,
                   routeVars, raceVars, parseVars>>

\* calculate_path_distance of the path just measured, taken the other way
CalculatePathDistanceBack ==
    /\ pc = "measured"
    /\ LET back == Reversed(measured[1][1].shape) IN
       measured' = Some(Append(measured[1],
                        [shape |-> back, total |-> calculate_path_distance(back)]))
    /\ pc' = "measured_back"
    /\ UNCHANGED <<snapper, init_call, fs, shape, coordinates, i, all_snapped,
                   calls, last_response, events, result, cache_io, files_before,
                   loaded, max_points_per_request, max_points,
                   densifier, dense_in, dense_out, batchVars,
                   routeVars, raceVars, parseVars>>

NextDensify ==
    \/ \E interval_meters \in Intervals : NewDensifier(interval_meters)
    \/ \E s \in DensifyInputs : DensifyShape(s)
    \/ \E s \in DensifyInputs : CalculatePathDistance(s)
    \/ CalculatePathDistanceBack

SpecDensify == Init /\ [][NextDensify]_vars

-----------------------------------------------------------------------------
(* The two transformations side by side: a run snaps a path, with or without
   max_points_per_request, or densifies one *)

\* the paths snapped here: up to one point more than OSRM takes in one request
TransformShapes ==
    {s \in InputShapes : coordinate_count(s) <= OSRM_CHUNK_SIZE + 1}

\* snap_shape's max_points_per_request: left out, or 3 points per request
MaxPointsArgs == {None, Some(3)}

NextTransform ==
    \/ \E provider \in ProviderNames, api_key \in ApiKeys, cache_dir \in CacheDirs :
            Construct(provider, api_key, cache_dir)
    \/ \E artifact \in StoredArtifacts("s1") : EarlierRun(artifact)
    \/ \E s \in TransformShapes, max_points_arg \in MaxPointsArgs :
            SnapShape(s, max_points_arg)
    \/ CheckCache
    \/ UnknownProvider
    \/ SnapOsrm
    \/ SnapMapbox
    \/ SnapGoogle
    \/ BuildShape
    \/ CacheResult
    \/ \E interval_meters \in Intervals : NewDensifier(interval_meters)
    \/ \E s \in DensifyInputs : DensifyShape(s)

SpecTransform == Init /\ [][NextTransform]_vars

-----------------------------------------------------------------------------
(* models.Route and KMLGenerator.generate_batch; a str is the sequence of its
   characters *)

\* the most routes handed to generate_batch
MaxRoutes == 2

\* the longest route_short_name, in characters
MaxNameLen == 2

\* the characters route names are made of here
NameChars == {"7", " ", "/"}

RouteShortNames == SeqsUpTo(NameChars, MaxNameLen)

RouteLongNames == {<<>>, <<"L">>}

\* GTFS route_id: unique within a feed
RouteIds == {<<"1">>, <<"2">>, <<"1", "0">>}

\* Route(route_id, route_short_name, route_long_name, ...)
Routes ==
    [route_id : RouteIds,
     route_short_name : RouteShortNames,
     route_long_name : RouteLongNames]

\* the route lists a feed yields: no two routes share a route_id
RouteLists ==
    {rs \in SeqsUpTo(Routes, MaxRoutes) :
        \A a, b \in 1..Len(rs) : a # b => rs[a].route_id # rs[b].route_id}

\* name.replace(old, new), for single characters
Replace(name, old, new) ==
    [k \in 1..Len(name) |-> IF name[k] = old THEN new ELSE name[k]]

\* re.sub(r'[<>:"/\\|?*]', '', name): the characters removed
Problematic == {"<", ">", ":", "\"", "/", "\\", "|", "?", "*"}

Digits == {"0", "1", "2", "3", "4", "5", "6", "7", "8", "9"}

Letters ==
    {"A", "B", "C", "D", "E", "F", "G", "H", "I", "J", "K", "L", "M",
     "N", "O", "P", "Q", "R", "S", "T", "U", "V", "W", "X", "Y", "Z",
     "a", "b", "c", "d", "e", "f", "g", "h", "i", "j", "k", "l", "m",
     "n", "o", "p", "q", "r", "s", "t", "u", "v", "w", "x", "y", "z"}

\* re.sub(r'[^\w\-]', '', name): the characters kept
WordOrHyphen == Letters \cup Digits \cup {"_", "-"}

\* name = name[:100]
SAFE_FILENAME_MAX == 100

\* Route.safe_filename
safe_filename(route) ==
    LET name0 == IF route.route_short_name # <<>> THEN route.route_short_name
                 ELSE route.route_long_name
        name1 == Replace(name0, " ", "_")
        name2 == SelectSeq(name1, LAMBDA c : c \notin Problematic)
        name3 == SelectSeq(name2, LAMBDA c : c \in WordOrHyphen)
        name4 == Slice(name3, 0, SAFE_FILENAME_MAX)
    IN  IF name4 # <<>> THEN name4
        ELSE <<"r", "o", "u", "t", "e", "_">> \o route.route_id

\* kml.save(str(output_path)): the directory after the file is written
SaveKml(files, output_path, held) ==
    {f \in files : f.path # output_path}
        \cup {[path |-> output_path, holds |-> held]}

\* generate_batch's loop over enumerate(routes), from round `at`
RECURSIVE GenerateRouteKmls(_, _, _)
GenerateRouteKmls(files, rs, at) ==
    IF at > Len(rs) THEN files
    ELSE GenerateRouteKmls(
            SaveKml(files, safe_filename(rs[at]) \o <<".kml">>, <<rs[at].route_id>>),
            rs, at + 1)

\* a feed has been parsed into routes
InitBatch ==
    /\ snapper = None
    /\ init_call = None
    /\ fs = [dir |-> FALSE, files |-> NoFiles]
    /\ pc = "parsed"
    /\ shape = None
    /\ coordinates = <<>>
    /\ i = 0
    /\ all_snapped = <<>>
    /\ calls = <<>>
    /\ last_response = None
    /\ events = <<>>
    /\ result = None
    /\ cache_io = NoCacheIo
    /\ files_before = NoFiles
    /\ loaded = None
    /\ max_points_per_request = None
    /\ max_points = None
    /\ densifier = None
    /\ dense_in = None
    /\ dense_out = None
    /\ measured = None
    /\ routes \in RouteLists
    /\ output_files = None
    /\ kml_files = {}
    /\ this_route = None
    /\ route_call = None
    /\ disk = <<>>
    /\ writers = <<>>
    /\ loads = <<>>
    /\ feed = None
    /\ parser = None
    /\ parsed = <<>>

\* KMLGenerator.generate_batch(routes, output_dir, split_by_route)
GenerateBatch(split_by_route) ==
    /\ pc = "parsed"
    /\ IF split_by_route
       THEN /\ kml_files' = GenerateRouteKmls(kml_files, routes, 1)
            /\ output_files' =
                  Some([k \in 1..Len(routes) |-> safe_filename(routes[k]) \o <<".kml">>])
            /\ pc' = "generated_per_route"
       ELSE /\ kml_files' = SaveKml(kml_files, <<"all_routes", ".kml">>,
                                    [k \in 1..Len(routes) |-> routes[k].route_id])
            /\ output_files' = Some(<< <<"all_routes", ".kml">> >>)
            /\ pc' = "generated_all_routes"
    /\ UNCHANGED <<snapper, init_call, fs, shape, coordinates, i, all_snapped,
                   calls, last_response, events, result, cache_io, files_before,
                   loaded, max_points_per_request, max_points, densifyVars,
                   routes, routeVars, raceVars, parseVars>>

NextBatch == \E split_by_route \in BOOLEAN : GenerateBatch(split_by_route)

SpecBatch == InitBatch /\ [][NextBatch]_vars

-----------------------------------------------------------------------------
(* models.Route on its own: safe_filename, kml_color, add_stop *)

\* route ids as GTFS allows them: any text
AnyRouteIds == RouteIds \cup {<<"a", "/", "b">>}

\* route_color values found in feeds: RRGGBB in either case, short, empty,
\* too long
RouteColors ==
    { <<"F", "F", "0", "0", "0", "0">>, <<"0", "0", "F", "F", "0", "0">>,
      <<"0", "0", "0", "0", "F", "F">>, <<"f", "f", "8", "8", "0", "0">>,
      <<"1", "2", "3", "4", "5", "6">>, <<"F", "F", "F">>, <<>>,
      <<"F", "F", "0", "0", "0", "0", "1">> }

\* Stop(stop_id, stop_name, stop_lat, stop_lon)
Stop(stop_id, stop_name, stop_lat, stop_lon) ==
    [stop_id |-> stop_id, stop_name |-> stop_name,
     stop_lat |-> stop_lat, stop_lon |-> stop_lon]

Stops == {Stop("stop_1", "Test Stop", 1, 103), Stop("stop_2", "Other Stop", 2, 104)}

LowerCase ==
    <<"a", "b", "c", "d", "e", "f", "g", "h", "i", "j", "k", "l", "m",
      "n", "o", "p", "q", "r", "s", "t", "u", "v", "w", "x", "y", "z">>

UpperCase ==
    <<"A", "B", "C", "D", "E", "F", "G", "H", "I", "J", "K", "L", "M",
      "N", "O", "P", "Q", "R", "S", "T", "U", "V", "W", "X", "Y", "Z">>

\* the text left in the case it came in
Upper_asgiven(text) == text

\* str.upper()
Upper(text) ==
    [k \in 1..Len(text) |->
        IF \E n \in 1..Len(LowerCase) : LowerCase[n] = text[k]
        THEN UpperCase[CHOOSE n \in 1..Len(LowerCase) : LowerCase[n] = text[k]]
        ELSE text[k]]

\* str.zfill(width), for text without a sign
Zfill(text, width) ==
    IF Len(text) >= width THEN text
    ELSE [k \in 1..(width - Len(text)) |-> "0"] \o text

\* Route.kml_color
kml_color(r) ==
    LET padded == Zfill(Upper(r.route_color), 6)
        color == IF Len(padded) # 6 THEN <<"F", "F", "F", "F", "F", "F">> ELSE padded
        red == Slice(color, 0, 2)
        green == Slice(color, 2, 4)
        blue == Slice(color, 4, 6)
    IN  <<"f", "f">> \o blue \o green \o red

\* the stop appended whether or not it is there
add_stop_always(stops, stop) == Append(stops, stop)

\* Route.add_stop: the stop list it leaves
add_stop(stops, stop) ==
    IF \E k \in 1..Len(stops) : stops[k] = stop THEN stops ELSE Append(stops, stop)

\* Route(route_id, route_short_name, route_long_name, route_color=...)
NewRoute(r, color) ==
    /\ pc = "new"
    /\ this_route' = Some([route_id |-> r.route_id,
                           route_short_name |-> r.route_short_name,
                           route_long_name |-> r.route_long_name,
                           route_color |-> color,
                           stops |-> <<>>])
    /\ pc' = "route"
    /\ UNCHANGED <<snapper, init_call, fs, shape, coordinates, i, all_snapped,
                   calls, last_response, events, result, cache_io, files_before,
                   loaded, max_points_per_request, max_points, densifyVars,
                   batchVars, route_call, raceVars, parseVars>>

\* route.safe_filename
SafeFilename ==
    /\ pc = "route"
    /\ route_call' = Some([member |-> "safe_filename",
                           value |-> safe_filename(this_route[1])])
    /\ UNCHANGED <<snapper, init_call, fs, pc, shape, coordinates, i, all_snapped,
                   calls, last_response, events, result, cache_io, files_before,
                   loaded, max_points_per_request, max_points, densifyVars,
                   batchVars, this_route, raceVars, parseVars>>

\* route.kml_color
KmlColor ==
    /\ pc = "route"
    /\ route_call' = Some([member |-> "kml_color",
                           value |-> kml_color(this_route[1])])
    /\ UNCHANGED <<snapper, init_call, fs, pc, shape, coordinates, i, all_snapped,
                   calls, last_response, events, result, cache_io, files_before,
                   loaded, max_points_per_request, max_points, densifyVars,
                   batchVars, this_route, raceVars, parseVars>>

\* route.add_stop(stop)
AddStop(stop) ==
    /\ pc = "route"
    /\ this_route' = Some([this_route[1] EXCEPT !.stops = add_stop(@, stop)])
    /\ route_call' = Some([member |-> "add_stop", stop |-> stop,
                           stops_before |-> this_route[1].stops])
    /\ UNCHANGED <<snapper, init_call, fs, pc, shape, coordinates, i, all_snapped,
                   calls, last_response, events, result, cache_io, files_before,
                   loaded, max_points_per_request, max_points, densifyVars,
                   batchVars, raceVars, parseVars>>

NextRoute ==
    \/ \E r \in [route_id : AnyRouteIds, route_short_name : RouteShortNames,
                 route_long_name : RouteLongNames],
          color \in RouteColors : NewRoute(r, color)
    \/ SafeFilename
    \/ KmlColor
    \/ \E stop \in Stops : AddStop(stop)

SpecRoute == Init /\ [][NextRoute]_vars

-----------------------------------------------------------------------------
(* Concurrent stores to one cache key: two snap operations (threads or
   processes) run _save_to_cache for the same shape while _load_from_cache
   reads.  The file is a sequence of blocks; open(cache_file, "w") truncates
   it, every write puts the writer's next block at the writer's own offset. *)

\* the most loads made during one race
MaxLoads == 1

\* json.dump(data, f): the text of the document, block by block
Serialise(data) ==
    << [kind |-> "head", shape_id |-> data.shape_id] >>
        \o [k \in 1..Len(data.points) |-> [kind |-> "point", point |-> data.points[k]]]
        \o << [kind |-> "tail"] >>

\* what a write past the end of the file leaves in between
Hole == [kind |-> "hole"]

\* json.load(f) of the blocks: the document they spell, if they spell one
FileText(blocks) ==
    IF /\ Len(blocks) >= 2
       /\ blocks[1].kind = "head"
       /\ blocks[Len(blocks)].kind = "tail"
       /\ \A k \in 2..(Len(blocks) - 1) : blocks[k].kind = "point"
    THEN JsonText([shape_id |-> blocks[1].shape_id,
                   points |-> [k \in 1..(Len(blocks) - 2) |-> blocks[k + 1].point]])
    ELSE Garbage

\* the file after a block is written at offset pos
WriteAt(blocks, pos, block) ==
    [k \in 1..(IF Len(blocks) > pos + 1 THEN Len(blocks) ELSE pos + 1) |->
        IF k = pos + 1 THEN block
        ELSE IF k <= Len(blocks) THEN blocks[k]
        ELSE Hole]

\* the snapped paths of shape s1 that the racing snap operations store
RacePaths ==
    { SnappedShape("s1", <<<<1001, 51>>>>),
      SnappedShape("s1", <<<<1, 51>>, <<2, 52>>>>),
      SnappedShape("s1", <<<<1001, 51>>, <<1002, 52>>>>) }

Writers == {"w1", "w2"}

\* two snap operations reach _save_to_cache(original_shape_id, snapped_shape)
StartStores(path1, path2) ==
    /\ pc = "new"
    /\ pc' = "storing"
    /\ fs' = [fs EXCEPT !.dir = TRUE]
    /\ writers' = [w \in Writers |->
                      [path |-> IF w = "w1" THEN path1 ELSE path2,
                       text |-> Serialise(CacheData(IF w = "w1" THEN path1 ELSE path2)),
                       pos |-> 0,
                       at |-> "ready"]]
    /\ UNCHANGED <<snapper, init_call, shape, coordinates, i, all_snapped,
                   calls, last_response, events, result, cache_io, files_before,
                   loaded, max_points_per_request, max_points, densifyVars,
                   batchVars, routeVars, disk, loads, parseVars>>

\* _save_to_cache: open(cache_file, "w")
OpenForWrite(w) ==
    /\ pc = "storing"
    /\ writers[w].at = "ready"
    /\ disk' = <<>>
    /\ writers' = [writers EXCEPT ![w].at = "open"]
    /\ UNCHANGED <<snapper, init_call, fs, pc, shape, coordinates, i, all_snapped,
                   calls, last_response, events, result, cache_io, files_before,
                   loaded, max_points_per_request, max_points, densifyVars,
                   batchVars, routeVars, loads, parseVars>>

\* _save_to_cache: json.dump writes the next block
WriteBlock(w) ==
    /\ pc = "storing"
    /\ writers[w].at = "open"
    /\ writers[w].pos < Len(writers[w].text)
    /\ disk' = WriteAt(disk, writers[w].pos, writers[w].text[writers[w].pos + 1])
    /\ writers' = [writers EXCEPT ![w].pos = @ + 1]
    /\ UNCHANGED <<snapper, init_call, fs, pc, shape, coordinates, i, all_snapped,
                   calls, last_response, events, result, cache_io, files_before,
                   loaded, max_points_per_request, max_points, densifyVars,
                   batchVars, routeVars, loads, parseVars>>

\* _save_to_cache: the with block ends, the file is closed
CloseFile(w) ==
    /\ pc = "storing"
    /\ writers[w].at = "open"
    /\ writers[w].pos = Len(writers[w].text)
    /\ writers' = [writers EXCEPT ![w].at = "closed"]
    /\ UNCHANGED <<snapper, init_call, fs, pc, shape, coordinates, i, all_snapped,
                   calls, last_response, events, result, cache_io, files_before,
                   loaded, max_points_per_request, max_points, densifyVars,
                   batchVars, routeVars, disk, loads, parseVars>>

\* _load_from_cache("s1") by a third snap operation, at any moment
LoadRacing ==
    /\ pc = "storing"
    /\ Len(loads) < MaxLoads
    /\ loads' = Append(loads,
          [stores_finished |-> \A w \in Writers : writers[w].at = "closed",
           value |-> IF disk = <<>> THEN None
                     ELSE LoadFromCache(
                            [NoFiles EXCEPT ![CacheFile("s1")] = Some(FileText(disk))],
                            "s1", TRUE)])
    /\ UNCHANGED <<snapper, init_call, fs, pc, shape, coordinates, i, all_snapped,
                   calls, last_response, events, result, cache_io, files_before,
                   loaded, max_points_per_request, max_points, densifyVars,
                   batchVars, routeVars, disk, writers, parseVars>>

NextRace ==
    \/ \E path1, path2 \in RacePaths : StartStores(path1, path2)
    \/ \E w \in Writers : OpenForWrite(w)
    \/ \E w \in Writers : WriteBlock(w)
    \/ \E w \in Writers : CloseFile(w)
    \/ LoadRacing

SpecRace == Init /\ [][NextRace]_vars

-----------------------------------------------------------------------------
(* GTFSParser: a parser object over a feed directory; parse() reads the
   files into self.routes, self.shapes, self.stops and self.trips, which
   live as long as the parser. *)

\* the most parse() calls made on one parser
MaxParses == 2

\* dict[key] = value
Put(dict, key, value) ==
    [k \in (DOMAIN dict) \cup {key} |-> IF k = key THEN value ELSE dict[k]]

\* rows of shapes.txt
ShapeRow(shape_id, lat, lon, seq) ==
    [shape_id |-> shape_id, shape_pt_lat |-> lat, shape_pt_lon |-> lon,
     shape_pt_sequence |-> seq]

\* rows of trips.txt
TripRow(trip_id, route_id, shape_id) ==
    [trip_id |-> trip_id, route_id |-> route_id, shape_id |-> shape_id]

\* rows of stops.txt
StopRow(stop_id, stop_name, stop_lat, stop_lon, location_type) ==
    [stop_id |-> stop_id, stop_name |-> stop_name, stop_lat |-> stop_lat,
     stop_lon |-> stop_lon, location_type |-> location_type]

\* rows of stop_times.txt
StopTimeRow(trip_id, stop_id) == [trip_id |-> trip_id, stop_id |-> stop_id]

\* feed directories; shapes.txt and stop_times.txt may be missing, and each
\* route is served by at most one regular stop, so that the iteration order
\* of the set of stop ids plays no part
Feeds ==
    { [routes |-> routes_txt, stops |-> stops_txt, shapes |-> shapes_txt,
       trips |-> trips_txt, stop_times |-> stop_times_txt] :
        routes_txt \in {<<"R1">>, <<"R1", "R2">>},
        stops_txt \in {<<StopRow("stop_1", "Test Stop", 1, 103, 0),
                        StopRow("station_1", "Test Station", 1, 103, 1)>>},
        shapes_txt \in {None,
                       Some(<<ShapeRow("s1", 1, 103, 1)>>),
                       Some(<<ShapeRow("s1", 2, 104, 2), ShapeRow("s1", 1, 103, 1)>>),
                       Some(<<ShapeRow("s1", 1, 103, 1), ShapeRow("s2", 5, 105, 1),
                              ShapeRow("s1", 2, 104, 2)>>)},
        trips_txt \in {<<>>,
                      <<TripRow("t1", "R1", None)>>,
                      <<TripRow("t1", "R1", Some("s1"))>>,
                      <<TripRow("t1", "R1", Some("s1")), TripRow("t2", "R1", Some("s1"))>>,
                      <<TripRow("t1", "R1", Some("s1")), TripRow("t2", "R2", Some("s2"))>>},
        stop_times_txt \in {None,
                           Some(<<StopTimeRow("t1", "stop_1"),
                                  StopTimeRow("t1", "station_1"),
                                  StopTimeRow("t9", "stop_1")>>)} }

\* route_filter arguments of parse()
RouteFilters == {None, Some({"R1"})}

\* shape.sort_points(): list.sort by shape_pt_sequence, which is stable
RECURSIVE sort_points(_)
sort_points(points) ==
    IF points = <<>> THEN <<>>
    ELSE LET sorted == sort_points(SubSeq(points, 1, Len(points) - 1))
             last == points[Len(points)]
             NotAfter(q) == q.shape_pt_sequence <= last.shape_pt_sequence
             After(q) == q.shape_pt_sequence > last.shape_pt_sequence
         IN SelectSeq(sorted, NotAfter) \o <<last>> \o SelectSeq(sorted, After)

\* _parse_routes: a new Route per row that passes the filter
RECURSIVE parse_routes(_, _, _)
parse_routes(p, rows, route_filter) ==
    IF rows = <<>> THEN p
    ELSE LET route_id == Head(rows)
             skipped == /\ route_filter # None
                        /\ route_filter[1] # {}
                        /\ route_id \notin route_filter[1]
             route == [route_id |-> route_id, trips |-> <<>>,
                       shapes |-> <<>>, stops |-> <<>>]
         IN parse_routes(IF skipped THEN p
                         ELSE [p EXCEPT !.routes = Put(@, route_id, route)],
                         Tail(rows), route_filter)

\* _parse_stops: rows of location_type 0 only
RECURSIVE parse_stops(_, _)
parse_stops(p, rows) ==
    IF rows = <<>> THEN p
    ELSE LET row == Head(rows)
         IN parse_stops(IF row.location_type # 0 THEN p
                        ELSE [p EXCEPT !.stops =
                                Put(@, row.stop_id,
                                    Stop(row.stop_id, row.stop_name,
                                         row.stop_lat, row.stop_lon))],
                        Tail(rows))

\* _parse_shapes, the loop over the rows: the point goes to the shape of its
\* id in self.shapes, which is created when it is not there yet
RECURSIVE add_shape_rows(_, _)
add_shape_rows(shapes, rows) ==
    IF rows = <<>> THEN shapes
    ELSE LET row == Head(rows)
             point == ShapePoint(row.shape_id, row.shape_pt_lat,
                                 row.shape_pt_lon, row.shape_pt_sequence)
             known == IF row.shape_id \in DOMAIN shapes THEN shapes
                      ELSE Put(shapes, row.shape_id, Shape(row.shape_id))
         IN add_shape_rows([known EXCEPT ![row.shape_id].points = Append(@, point)],
                           Tail(rows))

\* _parse_shapes: nothing without shapes.txt; else the rows, then every shape sorted
parse_shapes(p, shapes_txt) ==
    IF shapes_txt = None THEN p
    ELSE LET added == add_shape_rows(p.shapes, shapes_txt[1])
         IN [p EXCEPT !.shapes =
                [id \in DOMAIN added |->
                    [added[id] EXCEPT !.points = sort_points(@)]]]

\* _parse_trips: trips of loaded routes; the route gets the trip and, once,
\* the trip's shape when self.shapes has it
RECURSIVE parse_trips(_, _)
parse_trips(p, rows) ==
    IF rows = <<>> THEN p
    ELSE LET row == Head(rows)
             route == p.routes[row.route_id]
             linked == /\ Truthy(row.shape_id)
                       /\ row.shape_id[1] \in DOMAIN p.shapes
                       /\ \A k \in 1..Len(route.shapes) : route.shapes[k] # row.shape_id[1]
             with_trip == [route EXCEPT !.trips = Append(@, row)]
             with_shape == IF linked
                           THEN [with_trip EXCEPT !.shapes = Append(@, row.shape_id[1])]
                           ELSE with_trip
         IN parse_trips(IF row.route_id \notin DOMAIN p.routes THEN p
                        ELSE [p EXCEPT !.trips = Put(@, row.trip_id, row),
                                       !.routes = Put(@, row.route_id, with_shape)],
                        Tail(rows))

\* _link_stops_to_routes, the loop over the rows: route_stops[route_id]
RouteStops(p, rows, route_id) ==
    { rows[k].stop_id : k \in { n \in 1..Len(rows) :
                                   /\ rows[n].trip_id \in DOMAIN p.trips
                                   /\ p.trips[rows[n].trip_id].route_id = route_id } }

\* a set of at most one stop id as the for loop walks it
RECURSIVE InLoopOrder(_)
InLoopOrder(ids) ==
    IF ids = {} THEN <<>>
    ELSE LET id == CHOOSE x \in ids : TRUE
         IN <<id>> \o InLoopOrder(ids \ {id})

\* route.add_stop for each id of the sequence that self.stops knows
RECURSIVE add_stops(_, _, _)
add_stops(stops, ids, known) ==
    IF ids = <<>> THEN stops
    ELSE add_stops(IF Head(ids) \in DOMAIN known
                   THEN add_stop(stops, known[Head(ids)])
                   ELSE stops,
                   Tail(ids), known)

\* _link_stops_to_routes: nothing without stop_times.txt
link_stops_to_routes(p, stop_times_txt) ==
    IF stop_times_txt = None THEN p
    ELSE [p EXCEPT !.routes =
            [id \in DOMAIN p.routes |->
                [p.routes[id] EXCEPT !.stops =
                    add_stops(@, InLoopOrder(RouteStops(p, stop_times_txt[1], id)),
                              p.stops)]]]

\* parse(route_filter), in dependency order
parse(p, f, route_filter) ==
    link_stops_to_routes(
        parse_trips(
            parse_shapes(
                parse_stops(
                    parse_routes(p, f.routes, route_filter),
                    f.stops),
                f.shapes),
            f.trips),
        f.stop_times)

\* the routes parse() returns, each with the Shape objects it refers to
ReturnedRoutes(p) ==
    [id \in DOMAIN p.routes |->
        [p.routes[id] EXCEPT !.shapes =
            [k \in 1..Len(p.routes[id].shapes) |-> p.shapes[p.routes[id].shapes[k]]]]]

\* GTFSParser(gtfs_dir)
NewParser(f) ==
    /\ pc = "new"
    /\ pc' = "parser"
    /\ feed' = Some(f)
    /\ parser' = Some([routes |-> <<>>, shapes |-> <<>>, stops |-> <<>>, trips |-> <<>>])
    /\ UNCHANGED <<snapper, init_call, fs, shape, coordinates, i, all_snapped,
                   calls, last_response, events, result, cache_io, files_before,
                   loaded, max_points_per_request, max_points, densifyVars,
                   batchVars, routeVars, raceVars, parsed>>

\* parser.parse(route_filter)
Parse(route_filter) ==
    /\ pc = "parser"
    /\ Len(parsed) < MaxParses
    /\ LET p == parse(parser[1], feed[1], route_filter)
       IN /\ parser' = Some(p)
          /\ parsed' = Append(parsed, [route_filter |-> route_filter,
                                       routes |-> ReturnedRoutes(p)])
    /\ UNCHANGED <<snapper, init_call, fs, pc, shape, coordinates, i, all_snapped,
                   calls, last_response, events, result, cache_io, files_before,
                   loaded, max_points_per_request, max_points, densifyVars,
                   batchVars, routeVars, raceVars, feed>>

NextParse ==
    \/ \E f \in Feeds : NewParser(f)
    \/ \E route_filter \in RouteFilters : Parse(route_filter)

SpecParse == Init /\ [][NextParse]_vars

-----------------------------------------------------------------------------
(* Properties *)

\* a snap_shape call is running or has ended
InCall == pc \in {"cache_check", "snap", "build", "cache_write", "done", "raised"}

\* the artifact under the cache key of the shape being snapped, at call time
ArtifactBefore == files_before[CacheFile(shape.shape_id)]

\* an artifact that holds an output identifier and (lat, lon, seq) triples
LoadableArtifact(a) ==
    /\ a # None
    /\ a[1].valid
    /\ {"shape_id", "points"} \subseteq DOMAIN a[1].value
    /\ \A k \in 1..Len(a[1].value.points) :
          {"lat", "lon", "seq"} \subseteq DOMAIN a[1].value.points[k]

\* the (lat, lon) pairs of a path, in order
LatLons(path) ==
    [k \in 1..Len(path.points) |->
        <<path.points[k].shape_pt_lat, path.points[k].shape_pt_lon>>]

Requests == SelectSeq(events, LAMBDA e : e.kind = "request")
CacheWrites == SelectSeq(events, LAMBDA e : e.kind = "cache_write")
CacheReads == SelectSeq(events, LAMBDA e : e.kind = "cache_read")

\* C1: a round trip that fails (no answer, an error status, a malformed or
\* unsuccessful payload) returns exactly the chunk it was given, for OSRM,
\* Mapbox and Google alike, and snap_shape raises nothing for these providers.
C1_FailedRoundTripReturnsChunk ==
    InCall =>
        /\ \A k \in 1..Len(calls) :
               calls[k].outcome = "failed" => calls[k].returned = calls[k].chunk
        /\ pc = "raised" => self.provider \notin {"osrm", "mapbox", "google"}
        /\ pc = "done" => result # None

C1_Witness ==
    /\ pc = "done"
    /\ self.provider = "google"
    /\ Len(calls) = 2
    /\ calls[2].outcome = "failed"
    /\ calls[2].chunk # <<>>
    /\ last_response = None

\* C2: with a cache directory and a loadable artifact under the shape's key,
\* snap_shape returns the cached path, asks no provider and writes no artifact.
C2_CacheHitBypassesProvider ==
    (/\ InCall
     /\ self.cache_dir # None
     /\ LoadableArtifact(ArtifactBefore)
     /\ cache_io.read # "open_error")
    => /\ pc \in {"cache_check", "done"}
       /\ calls = <<>>
       /\ Requests = <<>>
       /\ CacheWrites = <<>>
       /\ fs.files = files_before
       /\ pc = "done" =>
            /\ result # None
            /\ result[1].shape_id = ArtifactBefore[1].value.shape_id
            /\ Len(result[1].points) = Len(ArtifactBefore[1].value.points)
            /\ \A k \in 1..Len(result[1].points) :
                  /\ result[1].points[k].shape_pt_lat = ArtifactBefore[1].value.points[k].lat
                  /\ result[1].points[k].shape_pt_lon = ArtifactBefore[1].value.points[k].lon

C2_Witness ==
    /\ pc = "done"
    /\ self.cache_dir # None
    /\ LoadableArtifact(ArtifactBefore)
    /\ cache_io.read = "hit"
    /\ Len(shape.points) > 6
    /\ Len(result[1].points) = 2

\* the number of points the windows' round trips returned, first to k-th
RECURSIVE ReturnedCount(_)
ReturnedCount(k) ==
    IF k = 0 THEN 0 ELSE ReturnedCount(k - 1) + Len(calls[k].returned)

\* overlap/2 of the provider in use, as the provider table gives it
HalfOverlap == IF self.provider = "osrm" THEN 1 ELSE 2

\* what the windows after the first contribute, each less its first
\* overlap/2 points, as far as it has them
RECURSIVE LaterContribution(_)
LaterContribution(k) ==
    IF k <= 1 THEN 0
    ELSE LaterContribution(k - 1)
         + (IF Len(calls[k].returned) > HalfOverlap
            THEN Len(calls[k].returned) - HalfOverlap ELSE 0)

\* the chunk loop has ended over several windows
Stitched == pc = "build" /\ Len(calls) > 1

PairwiseDistinct(seq) ==
    \A a, b \in 1..Len(seq) : a < b => seq[a] # seq[b]

\* C3: when every window of a path of pairwise distinct points falls back to
\* its own coordinates, the stitched output holds no point twice (so no two
\* equal neighbours at a stitch boundary either).
C3_StitchDoesNotDuplicate ==
    (/\ Stitched
     /\ PairwiseDistinct(coordinates)
     /\ \A k \in 1..Len(calls) : calls[k].returned = calls[k].chunk)
    => PairwiseDistinct(all_snapped)

\* C4 as claimed: the output count is the sum of the counts the N windows
\* returned, less overlap/2 for each of the N-1 windows after the first.
C4_CountLessHalfOverlapPerWindow ==
    Stitched =>
        Len(all_snapped) = ReturnedCount(Len(calls)) - (Len(calls) - 1) * HalfOverlap

\* C4, amended: the output count is the count the first window returned plus,
\* for each later window, the count it returned less overlap/2, or 0 when it
\* returned fewer than overlap/2 points.
C4_CountLessDiscardedPoints ==
    Stitched =>
        Len(all_snapped) = Len(calls[1].returned) + LaterContribution(Len(calls))

C4_Witness ==
    /\ Stitched
    /\ Len(calls) = 3
    /\ self.provider = "osrm"
    /\ Len(calls[2].returned) = 0
    /\ Len(calls[3].returned) = 3
    /\ Len(all_snapped) = 8

\* C5: without a cache hit, a path of at most chunk-size points (6 for OSRM,
\* 10 for Mapbox and Google), the empty path included, is sent in exactly one
\* request, which carries all its coordinates.
C5_ShortPathOneCall ==
    (/\ InCall
     /\ self.provider \in {"osrm", "mapbox", "google"}
     /\ cache_io.read # "hit"
     /\ Len(shape.points) <= (IF self.provider = "osrm" THEN 6 ELSE 10))
    => /\ Len(calls) <= 1
       /\ Len(Requests) = Len(calls)
       /\ pc \in {"build", "cache_write", "done"} =>
            /\ Len(calls) = 1
            /\ calls[1].chunk = LatLons(shape)
            /\ Requests[1].arg = Len(shape.points)

C5_Witness ==
    /\ pc = "done"
    /\ self.provider = "osrm"
    /\ cache_io.read = "unloadable"
    /\ Len(shape.points) = 6
    /\ Len(calls) = 1
    /\ Len(calls[1].chunk) = 6

\* the geometry a response carries, as (lat, lon) pairs
CarriedGeometry(provider, response) ==
    LET data == response.body.value IN
    IF provider = "google"
    THEN [k \in 1..Len(data.snappedPoints) |->
            <<data.snappedPoints[k].location.latitude,
              data.snappedPoints[k].location.longitude>>]
    ELSE LET g == data.matchings[1].geometry.coordinates
         IN  [k \in 1..Len(g) |-> <<g[k][2], g[k][1]>>]

LastCall == calls[Len(calls)]

\* C6: an otherwise successful OSRM response yields the matched geometry when
\* its confidence is at least 0.75 and the chunk itself when it is lower or
\* missing; Mapbox and Google yield the geometry whenever one is carried.
C6_ConfidenceGate ==
    last_response # None =>
        /\ LastCall.outcome = "matched" =>
              LastCall.returned = CarriedGeometry(self.provider, last_response[1])
        /\ LastCall.outcome = "low_confidence" =>
              /\ self.provider = "osrm"
              /\ LastCall.returned = LastCall.chunk
        /\ (/\ self.provider = "osrm"
            /\ LastCall.outcome = "matched")
           => last_response[1].body.value.matchings[1].confidence \in {75, 90}

C6_Witness ==
    /\ last_response # None
    /\ self.provider = "osrm"
    /\ LastCall.outcome = "low_confidence"
    /\ "confidence" \in DOMAIN last_response[1].body.value.matchings[1]
    /\ last_response[1].body.value.matchings[1].confidence = 50
    /\ Len(last_response[1].body.value.matchings[1].geometry.coordinates) = 6
    /\ LastCall.returned = LastCall.chunk

\* C7: the artifact of a shape is written at most once per call and only
\* after a round trip that matched: a call whose round trips all fell back
\* leaves the artifact under the shape's key as it was.
C7_NoEntryAfterFailedSnap ==
    /\ Len(CacheWrites) <= 1
    /\ (/\ pc = "done"
        /\ calls # <<>>
        /\ \A k \in 1..Len(calls) : calls[k].outcome # "matched")
       => fs.files[CacheFile(shape.shape_id)] = ArtifactBefore

\* C8: after a store that succeeded, a load of the same original id that can
\* open the artifact returns a path with the stored output identifier and the
\* same (lat, lon) pairs, in the same order.
C8_CacheRoundTrip ==
    (/\ pc = "loaded"
     /\ cache_io.write = "ok"
     /\ cache_io.read # "open_error")
    => /\ loaded # None
       /\ loaded[1].shape_id = result[1].shape_id
       /\ LatLons(loaded[1]) = LatLons(result[1])

C8_Witness ==
    /\ pc = "loaded"
    /\ cache_io.write = "ok"
    /\ cache_io.read = "hit"
    /\ shape.shape_id = "s1"
    /\ result[1].shape_id = "s2_snapped"
    /\ ArtifactBefore # None
    /\ Len(loaded[1].points) = 2
    /\ loaded[1].points[1].shape_pt_lat # loaded[1].points[2].shape_pt_lat

\* C9: an artifact that is missing or does not deserialise is a cache miss,
\* after which the provider is asked; a write that fails is swallowed and
\* snap_shape returns the path it has just built; no cache failure raises.
C9_CacheFailuresNeverPropagate ==
    /\ (/\ InCall
        /\ pc # "cache_check"
        /\ self.cache_dir # None
        /\ self.provider \in {"osrm", "mapbox", "google"}
        /\ ~LoadableArtifact(ArtifactBefore))
       => /\ cache_io.read \in {"absent", "unloadable", "open_error"}
          /\ pc \in {"snap", "build", "cache_write", "done"}
          /\ pc # "snap" => Len(calls) >= 1
    /\ (/\ pc = "done"
        /\ cache_io.write \in {"open_error", "write_error"})
       => /\ result # None
          /\ result[1].shape_id = shape.shape_id \o "_snapped"
          /\ LatLons(result[1]) = all_snapped
    /\ pc = "raised" => self.provider \notin {"osrm", "mapbox", "google"}

C9_Witness ==
    /\ pc = "done"
    /\ cache_io.read = "unloadable"
    /\ ArtifactBefore # None
    /\ ArtifactBefore[1].valid
    /\ cache_io.write = "write_error"
    /\ Len(calls) = 1
    /\ calls[1].outcome = "matched"
    /\ Len(result[1].points) = 3

\* C10: construction raises the configuration error exactly when the
\* provider, whatever its case, is mapbox or google and the API key is None
\* or empty; osrm needs no key.
C10_ConstructionFailsIffKeyMissing ==
    init_call # None =>
        LET args == init_call[1] IN
        /\ args.raised = "ValueError"
             <=> /\ args.provider \in {"mapbox", "Mapbox", "google", "GOOGLE"}
                 /\ args.api_key \in {None, Some("")}
        /\ args.raised = "ValueError" <=> pc = "init_failed"
        /\ args.raised = "none" <=> pc = "idle"
        /\ pc = "idle" => snapper # None
        /\ pc = "init_failed" => snapper = None

C10_Witness ==
    /\ init_call # None
    /\ init_call[1].provider = "GOOGLE"
    /\ init_call[1].api_key = Some("")
    /\ init_call[1].raised = "ValueError"
    /\ pc = "init_failed"

\* C11: only construction can fail hard: once a RoadSnapper has been
\* constructed, snap_shape returns a path and never raises, whatever the
\* provider, the provider responses and the cache state.
C11_SnapShapeNeverRaises ==
    /\ InCall => pc # "raised"
    /\ pc = "done" => result # None

-----------------------------------------------------------------------------
(* Properties of the densifier and of calculate_path_distance *)

\* densify_shape has returned
Densified == pc = "densified"

\* the distance between input points k and k + 1 of a path
PairDistance(path, k) == geodesic(LatLons(path)[k], LatLons(path)[k + 1])

Floor(d, interval) ==
    CHOOSE n \in 0..d : n * interval <= d /\ d < (n + 1) * interval

\* how many points the claim interpolates between input points k and k + 1
Interpolated(path, interval, k) ==
    LET d == PairDistance(path, k) IN
    IF d > interval THEN Floor(d, interval) ELSE 0

\* where the claim puts input point k in the output
RECURSIVE PlaceOf(_, _, _)
PlaceOf(path, interval, k) ==
    IF k = 1 THEN 1
    ELSE PlaceOf(path, interval, k - 1) + 1 + Interpolated(path, interval, k - 1)

C14_ThreeHundredMetresFourPoints ==
    (/\ Densified
     /\ densifier[1].interval_meters = 100
     /\ coordinate_count(dense_in[1]) = 2
     /\ PairDistance(dense_in[1], 1) = 300)
        => coordinate_count(dense_out[1]) = 4

\* C15: densify on a path with 0 or 1 points returns the input path unchanged
\* (same identifier, same points, same point count) and does not fail.
C15_DegeneratePathUnchanged ==
    /\ (dense_in # None /\ coordinate_count(dense_in[1]) < 2) =>
          /\ Densified
          /\ dense_out = dense_in
          /\ dense_out[1].shape_id = dense_in[1].shape_id
          /\ coordinate_count(dense_out[1]) = coordinate_count(dense_in[1])

C15_Witness ==
    /\ Densified
    /\ coordinate_count(dense_in[1]) = 1
    /\ dense_out[1].shape_id = "s1"
    /\ dense_out[1].points[1].shape_pt_sequence = 1

\* the sum of the distances over the consecutive pairs of a path
RECURSIVE SumOfPairs(_, _)
SumOfPairs(path, upto) ==
    IF upto < 1 THEN 0
    ELSE SumOfPairs(path, upto - 1) + PairDistance(path, upto)

\* C18: calculate_path_distance is 0 for a path of fewer than 2 points,
\* otherwise the sum of the distances of the consecutive pairs, and it is the
\* same for a path and for that path with its points in reverse order.
C18_PathDistance ==
    measured # None =>
        LET first == measured[1][1] IN
        /\ coordinate_count(first.shape) < 2 => first.total = 0
        /\ coordinate_count(first.shape) >= 2 =>
              first.total = SumOfPairs(first.shape, coordinate_count(first.shape) - 1)
        /\ Len(measured[1]) = 2 =>
              /\ LatLons(measured[1][2].shape)
                    = [k \in 1..Len(first.shape.points) |->
                          LatLons(first.shape)[Len(first.shape.points) + 1 - k]]
              /\ measured[1][2].total = first.total

\* a path going north, then south-east, measured both ways
C18_Witness ==
    /\ pc = "measured_back"
    /\ LatLons(measured[1][1].shape) = <<<<0, 0>>, <<120, 0>>, <<60, 60>>>>
    /\ LatLons(measured[1][2].shape) = <<<<60, 60>>, <<120, 0>>, <<0, 0>>>>
    /\ measured[1][1].total = 240
    /\ measured[1][2].total = 240

-----------------------------------------------------------------------------
(* Properties of the transformations *)

\* snap_shape has returned a path
Snapped == pc = "done" /\ result # None

\* the sequence indices of a path are exactly 0, 1, ..., n-1, in point order
SequencedFromZero(path) ==
    \A k \in 1..Len(path.points) : path.points[k].shape_pt_sequence = k - 1

\* the sequence indices of a path, in point order
Sequences(path) ==
    [k \in 1..Len(path.points) |-> path.points[k].shape_pt_sequence]

\* C16: every path returned by a transformation (snap_shape on a cache miss or
\* a cache hit, densify_shape for any input path) has the sequence indices
\* 0, 1, ..., n-1 in point order.
C16_ReturnedPathsSequencedFromZero ==
    /\ Snapped => SequencedFromZero(result[1])
    /\ Densified => SequencedFromZero(dense_out[1])

\* C16, amended: snap_shape, on a cache miss or a cache hit, and densify_shape
\* on a path of at least 2 points return sequence indices 0, 1, ..., n-1;
\* densify_shape on a path of fewer than 2 points returns the indices of its
\* input.
C16_ResequencedPathsFromZero ==
    /\ Snapped => SequencedFromZero(result[1])
    /\ (Densified /\ coordinate_count(dense_in[1]) >= 2) =>
          SequencedFromZero(dense_out[1])
    /\ (Densified /\ coordinate_count(dense_in[1]) < 2) =>
          Sequences(dense_out[1]) = Sequences(dense_in[1])

\* a snapped path of two windows, numbered 0..7 from an input numbered 1..7
C16_Witness ==
    /\ Snapped
    /\ cache_io.read = "none"
    /\ Len(calls) = 2
    /\ Sequences(shape) = <<1, 2, 3, 4, 5, 6, 7>>
    /\ Sequences(result[1]) = <<0, 1, 2, 3, 4, 5, 6, 7>>

\* C17: each transformation, for every input path, returns a new path whose
\* identifier is the input's with "_snapped" or "_dense" appended, and leaves
\* the input path's identifier, point list and point fields as they were.
C17_NewPathWithSuffixedId ==
    /\ Snapped =>
          /\ result[1].shape_id = shape.shape_id \o "_snapped"
          /\ shape = RawShape(shape.shape_id, Len(shape.points))
    /\ Densified =>
          /\ dense_out[1].shape_id = dense_in[1].shape_id \o "_dense"
          /\ dense_out # dense_in
          /\ dense_in[1] = GridShape(dense_in[1].shape_id, LatLons(dense_in[1]))

\* C17, amended: snap_shape for every input path, and densify_shape for every
\* input path of at least 2 points, return a new path whose identifier is the
\* input's with "_snapped" or "_dense" appended; densify_shape on a path of
\* fewer than 2 points returns the input path itself; the input path is left
\* as it was in every case.
C17_NewPathUnlessDegenerate ==
    /\ Snapped =>
          /\ result[1].shape_id = shape.shape_id \o "_snapped"
          /\ shape = RawShape(shape.shape_id, Len(shape.points))
    /\ Densified =>
          /\ IF coordinate_count(dense_in[1]) >= 2
             THEN /\ dense_out[1].shape_id = dense_in[1].shape_id \o "_dense"
                  /\ dense_out # dense_in
                  /\ \A k \in 1..Len(dense_out[1].points) :
                        dense_out[1].points[k].shape_id = dense_out[1].shape_id
             ELSE dense_out = dense_in
          /\ dense_in[1] = GridShape(dense_in[1].shape_id, LatLons(dense_in[1]))

\* a densified path of 2 points with nothing interpolated: only the
\* identifier and the numbering tell it from its input
C17_Witness ==
    /\ Densified
    /\ LatLons(dense_in[1]) = <<<<0, 0>>, <<60, 0>>>>
    /\ LatLons(dense_out[1]) = LatLons(dense_in[1])
    /\ dense_in[1].shape_id = "s1"
    /\ dense_out[1].shape_id = "s1_dense"

\* C19: when snap_shape is called with max_points_per_request = m, no
\* provider request of that call carries more than m points.
C19_MaxPointsPerRequestObeyed ==
    (InCall /\ max_points_per_request # None) =>
        \A k \in 1..Len(Requests) : Requests[k].arg <= max_points_per_request[1]

-----------------------------------------------------------------------------
(* Properties of generate_batch *)

\* C20: generate_batch with split_by_route = True creates one output file per
\* route: the returned list has one path per input route, the paths are
\* pairwise distinct, and no route's file is overwritten by another route's.
C20_OneFilePerRoute ==
    pc = "generated_per_route" =>
        /\ Len(output_files[1]) = Len(routes)
        /\ PairwiseDistinct(output_files[1])
        /\ \A k \in 1..Len(routes) :
              [path |-> output_files[1][k], holds |-> <<routes[k].route_id>>]
                  \in kml_files

-----------------------------------------------------------------------------
(* Properties of models.Route *)

\* C21: for every route, whatever its route_id, short name and long name,
\* safe_filename is non-empty and holds none of / \ < > : " | ? *.
C21_SafeFilenameIsSafe ==
    (route_call # None /\ route_call[1].member = "safe_filename") =>
        LET name == route_call[1].value IN
        /\ name # <<>>
        /\ \A k \in 1..Len(name) : name[k] \notin Problematic

\* "rrggbb" is six hex digits
HexDigits == Digits \cup {"A", "B", "C", "D", "E", "F", "a", "b", "c", "d", "e", "f"}

\* str.lower() on hex digits
LowerHex(text) ==
    [k \in 1..Len(text) |->
        IF \E n \in 1..6 : UpperCase[n] = text[k]
        THEN LowerCase[CHOOSE n \in 1..6 : UpperCase[n] = text[k]]
        ELSE text[k]]

\* C22: for every 6-hex-digit route_color RRGGBB, kml_color is 'ff' followed
\* by BB, GG, RR, in lowercase hex (FF0000 -> ff0000ff, 00FF00 -> ff00ff00,
\* 0000FF -> ffff0000).
C22_KmlColorLowercaseAabbggrr ==
    (/\ route_call # None
     /\ route_call[1].member = "kml_color"
     /\ Len(this_route[1].route_color) = 6
     /\ \A k \in 1..6 : this_route[1].route_color[k] \in HexDigits) =>
        LET rgb == this_route[1].route_color IN
        route_call[1].value
            = <<"f", "f">> \o LowerHex(<<rgb[5], rgb[6], rgb[3], rgb[4], rgb[1], rgb[2]>>)

\* C23: after any sequence of add_stop calls on a route, route.stops holds no
\* two equal stops: adding a stop that is already there leaves the list as it
\* was, adding a new stop appends it.
C23_AddStopKeepsStopsDistinct ==
    /\ this_route # None => PairwiseDistinct(this_route[1].stops)
    /\ (route_call # None /\ route_call[1].member = "add_stop") =>
          LET before == route_call[1].stops_before
              stop == route_call[1].stop
          IN  IF \E k \in 1..Len(before) : before[k] = stop
              THEN this_route[1].stops = before
              ELSE this_route[1].stops = Append(before, stop)

\* the test's case: a stop added twice, then another one
C23_Witness ==
    /\ route_call # None
    /\ route_call[1].member = "add_stop"
    /\ route_call[1].stop = Stop("stop_1", "Test Stop", 1, 103)
    /\ route_call[1].stops_before
          = <<Stop("stop_1", "Test Stop", 1, 103), Stop("stop_2", "Other Stop", 2, 104)>>
    /\ Len(this_route[1].stops) = 2

-----------------------------------------------------------------------------
(* Properties of the chunk loop and of the order of a snap_shape call *)

\* the chunk size and the step the claims give each provider
ClaimedChunk == IF self.provider = "osrm" THEN 6 ELSE 10
ClaimedStep == IF self.provider = "osrm" THEN 4 ELSE 5

\* the end of window k of a path of n points: min(k*step + chunk, n)
WindowEnd(k, n) == Min(k * ClaimedStep + ClaimedChunk, n)

\* how many windows a path of n > chunk points has: the first window whose
\* end reaches n is the last
WindowCount(n) == 1 + CHOOSE k \in 0..n : WindowEnd(k, n) >= n
                                         /\ \A j \in 0..(k - 1) : WindowEnd(j, n) < n

\* the coordinates of the input path at the indices lo .. hi-1, from 0
InputRange(lo, hi) == [j \in 1..(hi - lo) |-> LatLons(shape)[lo + j]]

\* a snap_shape call that went to the provider with a path longer than a chunk
LongSnap ==
    /\ pc \in {"snap", "build", "cache_write", "done"}
    /\ self.provider \in KnownProviders
    /\ cache_io.read # "hit"
    /\ Len(shape.points) > ClaimedChunk

\* C24: for a path of n > chunk size coordinates the provider is called on
\* the windows [k*step, min(k*step + chunk, n)), k = 0, 1, ..., with step 4
\* for OSRM and 5 for Mapbox and Google, stopping right after the first
\* window whose end reaches n; every input index lies in a window, and no
\* request carries more than chunk-size (hence at most 100) points.
C24_WindowsCoverThePath ==
    LongSnap =>
        LET n == Len(shape.points) IN
        /\ Len(calls) <= WindowCount(n)
        /\ pc # "snap" => Len(calls) = WindowCount(n)
        /\ \A k \in 1..Len(calls) :
              /\ calls[k].chunk
                    = InputRange((k - 1) * ClaimedStep, WindowEnd(k - 1, n))
              /\ Len(calls[k].chunk) <= ClaimedChunk
              /\ Len(calls[k].chunk) <= 100
        /\ Len(Requests) = Len(calls)
        /\ \A k \in 1..Len(Requests) : Requests[k].arg = Len(calls[k].chunk)
        /\ pc # "snap" =>
              \A idx \in 0..(n - 1) : \E k \in 0..(Len(calls) - 1) :
                  k * ClaimedStep <= idx /\ idx < WindowEnd(k, n)

\* OSRM on 11 points: the windows [0,6), [4,10) and [8,11)
C24_Witness ==
    /\ LongSnap
    /\ pc = "done"
    /\ self.provider = "osrm"
    /\ Len(shape.points) = 11
    /\ Len(calls) = 3
    /\ calls[2].chunk = InputRange(4, 10)
    /\ calls[3].chunk = InputRange(8, 11)

\* the rate limit of the provider in use, in requests per second
ClaimedRateLimit == IF self.provider = "osrm" THEN 1000 ELSE 10

\* how many windows the path being snapped has
Windows ==
    IF Len(shape.points) > ClaimedChunk THEN WindowCount(Len(shape.points)) ELSE 1

\* a snap_shape call that missed the cache, or has none, and went to the
\* provider
MissedSnap ==
    /\ pc \in {"snap", "build", "cache_write", "done"}
    /\ self.provider \in KnownProviders
    /\ cache_io.read # "hit"

\* C25: a snap that misses the cache over N windows issues exactly N provider
\* calls, one per window and in increasing window order, one after the other;
\* each call comes right after its own rate-limit delay of 1/rate_limit
\* seconds; a failed call is not retried.
C25_OneDelayedCallPerWindow ==
    MissedSnap =>
        /\ Len(Requests) <= Windows
        /\ pc # "snap" => Len(Requests) = Windows
        /\ Len(calls) = Len(Requests)
        /\ \A k \in 1..Len(calls) :
              /\ Requests[k].arg = Len(calls[k].chunk)
              /\ Len(shape.points) > ClaimedChunk =>
                    calls[k].chunk
                        = InputRange((k - 1) * ClaimedStep,
                                     WindowEnd(k - 1, Len(shape.points)))
        /\ \A j \in 1..Len(events) :
              /\ events[j].kind = "request" =>
                    /\ j > 1
                    /\ events[j - 1] = Event("sleep", ClaimedRateLimit)
              /\ events[j].kind = "sleep" =>
                    /\ j < Len(events)
                    /\ events[j + 1].kind = "request"

\* three windows, the second of which failed: three calls all the same
C25_Witness ==
    /\ MissedSnap
    /\ pc = "done"
    /\ self.provider = "osrm"
    /\ Len(calls) = 3
    /\ calls[1].outcome = "matched"
    /\ calls[2].outcome = "failed"
    /\ calls[3].outcome = "matched"
    /\ Len(Requests) = 3

\* the places of the events of a kind in the call's event list
PlacesOf(kind) == {j \in 1..Len(events) : events[j].kind = kind}

\* the order of a snap_shape call with a cache, and without one
SnapOrder ==
    /\ self.cache_dir # None =>
          /\ pc # "cache_check" =>
                /\ PlacesOf("cache_read") = {1}
                /\ \A j \in PlacesOf("request") : j > 1
          /\ cache_io.read = "hit" =>
                /\ pc = "done"
                /\ PlacesOf("request") = {}
                /\ PlacesOf("cache_write") = {}
          /\ (pc = "done" /\ cache_io.read # "hit") =>
                /\ PlacesOf("request") # {}
                /\ PlacesOf("cache_write") = {Len(events)}
                /\ cache_io.write # "none"
          /\ pc # "done" => PlacesOf("cache_write") = {}
    /\ self.cache_dir = None =>
          /\ PlacesOf("cache_read") = {}
          /\ PlacesOf("cache_write") = {}
          /\ pc \notin {"cache_check", "cache_write"}

\* C26: every snap call with a cache configured goes start -> cache-check ->
\* (cache-hit -> done) or (cache-miss -> chunk-loop -> stitch -> cache-write
\* -> done): the cache is read before any provider call, and on a miss
\* exactly one cache write happens, after the last provider call and before
\* the result is returned; without a cache nothing reads or writes it.
C26_SnapCallOrder ==
    InCall =>
        /\ SnapOrder
        /\ self.cache_dir # None =>
              pc \in {"cache_check", "snap", "build", "cache_write", "done"}

\* the same order, for the three providers a snapper knows
SnapOrderOfKnownProviders ==
    (InCall /\ self.provider \in KnownProviders) => SnapOrder

\* the points of small appear in big, in the order they have in small
RECURSIVE Embeds(_, _)
Embeds(small, big) ==
    IF small = <<>> THEN TRUE
    ELSE IF big = <<>> THEN FALSE
    ELSE IF Head(small) = Head(big) THEN Embeds(Tail(small), Tail(big))
    ELSE Embeds(small, Tail(big))

\* the windows whose round trip failed
FailedWindows == {k \in 1..Len(calls) : calls[k].outcome = "failed"}

\* C27: a failed match never drops points: for any multi-window path and any
\* pattern of failures and successes of its windows, every original
\* coordinate of each failed window appears in the snap output, in original
\* order.
C27_FailedWindowsKeepTheirPoints ==
    Stitched =>
        \A k \in FailedWindows : Embeds(calls[k].chunk, all_snapped)

\* C27, amended: every original coordinate of each failed window, except the
\* first overlap/2 coordinates (1 for OSRM, 2 for Mapbox and Google) of a
\* failed window after the first, appears in the snap output, in original
\* order.
C27_FailedWindowsKeepTheirTail ==
    Stitched =>
        \A k \in FailedWindows :
            Embeds(IF k = 1 THEN calls[k].chunk
                   ELSE [j \in 1..(Len(calls[k].chunk) - HalfOverlap) |->
                            calls[k].chunk[j + HalfOverlap]],
                   all_snapped)

\* OSRM on 7 points: the first window matched, the second failed and its
\* first point, (5, 55), is in the output only as snapped by the first
C27_Witness ==
    /\ Stitched
    /\ self.provider = "osrm"
    /\ Len(shape.points) = 7
    /\ calls[1].outcome = "matched"
    /\ calls[2].outcome = "failed"
    /\ calls[2].chunk = <<<<5, 55>>, <<6, 56>>, <<7, 57>>>>
    /\ Len(all_snapped) = 8
    /\ all_snapped[7] = <<6, 56>>
    /\ all_snapped[8] = <<7, 57>>
    /\ \A j \in 1..8 : all_snapped[j] # <<5, 55>>

\* C29: a RoadSnapper construction that fails with the missing-API-key
\* configuration error has no side effect: the configured cache directory is
\* not created, the file system is as it was before the call.
C29_FailedConstructionLeavesNoDirectory ==
    pc = "init_failed" => fs = [dir |-> FALSE, files |-> NoFiles]

-----------------------------------------------------------------------------
(* Properties of concurrent stores *)

\* the paths the racing stores were given, as a load returns them
StoredInFull == {Some(writers[w].path) : w \in Writers}

\* C28: concurrent snap operations that store to the same cache key without
\* locking obey last-write-wins: once all stores have finished, a load of the
\* key returns in full the path written by one of them, and a load running
\* concurrently with a store returns either absent or a complete stored path,
\* never a partially written or mixed one.
C28_LastWriteWins ==
    \A k \in 1..Len(loads) :
        IF loads[k].stores_finished
        THEN loads[k].value \in StoredInFull
        ELSE loads[k].value = None \/ loads[k].value \in StoredInFull

-----------------------------------------------------------------------------
(* Properties of GTFSParser *)

\* C30: GTFSParser.parse is repeatable: a second parse() on the same parser
\* over an unchanged feed, with the same filter, returns routes and shapes
\* equal to those of the first call; each shape's point list has the same
\* length and the same points, not duplicated ones.
C30_ParseIsRepeatable ==
    (Len(parsed) >= 2 /\ parsed[2].route_filter = parsed[1].route_filter)
        => /\ DOMAIN parsed[2].routes = DOMAIN parsed[1].routes
           /\ \A id \in DOMAIN parsed[1].routes :
                 parsed[2].routes[id] = parsed[1].routes[id]

====
